---- MODULE Spec2Model ----
(***************************************************************************)
(* A model of the s2fft spherical-harmonic transforms: the on-the-fly      *)
(* transforms (s2fft/transform.py), the kernel builder                     *)
(* (s2fft/general_precompute/construct.py), the kernel-based transforms    *)
(* (s2fft/precompute_transforms/spherical.py), the Wigner transforms       *)
(* (s2fft/jax_transforms/wigner.py) and the Price-McEwen recursion         *)
(* (s2fft/wigner/price_mcewen.py).                                         *)
(*                                                                         *)
(* Numbers.  The program computes in float64 / complex128.  The model      *)
(* computes exactly, in the finite field GF(P^2) = GF(P)[i] with P = 239:  *)
(* a number is a pair <<re, im>> of residues.  P = 3 (mod 4), so i is not  *)
(* a residue, conjugation <<a, b>> |-> <<a, -b>> is a field automorphism,  *)
(* and the elements of norm 1 form a cyclic group of order P + 1 = 240 on  *)
(* which conjugation is inversion, exactly as on the complex unit circle.  *)
(* Zeta generates that group and stands for exp(2 pi i / 240), so every    *)
(* n-th root of unity with n | 240 (FFT lengths 1..6, 8, HEALPix ring      *)
(* offsets) is a number of the model and the discrete Fourier transforms   *)
(* are computed term by term as numpy computes them.  Irrational reals     *)
(* that the program obtains from code outside these sources (Wigner-d      *)
(* values, quadrature weights) or from sqrt and pi are each represented by *)
(* a fixed real residue; an identity between the polynomial expressions    *)
(* the program evaluates holds in the model whenever it holds over the     *)
(* complex numbers, and a difference found in the model is a difference of *)
(* those expressions.                                                      *)
(***************************************************************************)
EXTENDS Integers, Sequences, FiniteSets, TLC

\* ------------------------------------------------------------------ bounds
MaxL == 2          \* band-limits 1..MaxL
MaxNside == 1      \* HEALPix resolutions 1..MaxNside
MaxPML == 3        \* band-limits 1..MaxPML of the Wigner-d recursion
MaxCalls == 2      \* calls of compute_all_slices with one bundle

\* ----------------------------------------------------------------- numbers
P == 239

CZero == <<0, 0>>
COne == <<1, 0>>
Real(a) == <<a % P, 0>>
CAdd(x, y) == <<(x[1] + y[1]) % P, (x[2] + y[2]) % P>>
CMul(x, y) == <<(x[1] * y[1] - x[2] * y[2]) % P, (x[1] * y[2] + x[2] * y[1]) % P>>
CConj(x) == <<x[1], (P - x[2]) % P>>
CScale(a, x) == <<(a * x[1]) % P, (a * x[2]) % P>>
CRealPart(x) == <<x[1], 0>>

Abs(a) == IF a < 0 THEN -a ELSE a
Max(a, b) == IF a >= b THEN a ELSE b
Min(a, b) == IF a <= b THEN a ELSE b

\* (-1) ** k
SignPow(k) == IF k % 2 = 0 THEN 1 ELSE -1

Zeta == <<12, 88>>
RECURSIVE CPow(_, _)
CPow(x, k) ==
    IF k = 0 THEN COne
    ELSE IF k % 2 = 0 THEN LET h == CPow(x, k \div 2) IN CMul(h, h)
    ELSE CMul(x, CPow(x, k - 1))
ZetaPow == [k \in 0..239 |-> CPow(Zeta, k)]
\* exp(2 pi i k / n), n a divisor of 240
Root(n, k) == ZetaPow[((240 \div n) * (k % n)) % 240]

RECURSIVE CSum(_, _, _)
\* sum of f[lo], ..., f[hi]
CSum(f, lo, hi) == IF lo > hi THEN CZero ELSE CAdd(f[lo], CSum(f, lo + 1, hi))

\* np.zeros((rows, cols))
Zeros2(rows, cols) == [r \in 0..(rows - 1) |-> [c \in 0..(cols - 1) |-> CZero]]
NRows(a) == Cardinality(DOMAIN a)
NCols(a) == IF NRows(a) = 0 THEN 0 ELSE Cardinality(DOMAIN a[0])

\* ---------------------------------------------------------------- sampling
\* str.lower() on the spellings the model passes
Lower(s) ==
    CASE s = "MW" -> "mw"
      [] s = "MWSS" -> "mwss"
      [] s = "DH" -> "dh"
      [] s = "HEALPIX" -> "healpix"
      [] OTHER -> s

\* number of rings: len(samples.thetas(L, sampling, nside))
NTheta(L, sampling, nside) ==
    CASE Lower(sampling) = "mw" -> L
      [] Lower(sampling) = "mwss" -> L + 1
      [] Lower(sampling) = "dh" -> 2 * L
      [] OTHER -> 4 * nside - 1

\* samples.nphi_equiang(L, sampling)
NPhiEquiang(L, sampling) == IF Lower(sampling) = "mwss" THEN 2 * L ELSE 2 * L - 1

\* samples.nphi_ring(t, nside)
NPhiRing(t, nside) ==
    IF t + 1 < nside THEN 4 * (t + 1)
    ELSE IF t + 1 <= 3 * nside THEN 4 * nside
    ELSE 4 * (4 * nside - t - 1)

\* samples on ring t
NPhi(L, sampling, nside, t) ==
    IF Lower(sampling) = "healpix" THEN NPhiRing(t, nside) ELSE NPhiEquiang(L, sampling)

\* samples.flm_shape(L)
FlmShape(L) == <<L, 2 * L - 1>>

\* samples.ftm_shape(L, sampling, nside)
FtmShape(L, sampling, nside) ==
    <<NTheta(L, sampling, nside),
      IF Lower(sampling) \in {"mwss", "healpix"} THEN 2 * L ELSE 2 * L - 1>>

\* samples.p2phi_ring(t, 0, nside), in units of 2 pi / 240
PhiRingOffset(t, nside) ==
    IF t + 1 >= nside /\ t + 1 <= 3 * nside
    THEN ((t - nside + 2) % 2) * (30 \div nside)
    ELSE IF t + 1 > 3 * nside THEN 30 \div (4 * nside - t - 1)
    ELSE 30 \div (t + 1)

\* exp(i m phi) for sample p of ring t: samples.phis_equiang / samples.phis_ring
ExpIMPhi(L, sampling, nside, t, p, m) ==
    IF Lower(sampling) = "healpix"
    THEN CMul(Root(NPhiRing(t, nside), m * p), ZetaPow[(m * PhiRingOffset(t, nside)) % 240])
    ELSE Root(NPhiEquiang(L, sampling), m * p)

\* samples.ring_phase_shift_hp(L, t, nside, forward)[m + L - 1]
RingPhaseShiftHp(L, t, nside, forward, m) ==
    LET k == (m * PhiRingOffset(t, nside)) % 240
    IN IF forward THEN CConj(ZetaPow[k]) ELSE ZetaPow[k]

\* ------------------------------------------------- Wigner-d and quadrature
\* wigner.turok.compute_slice(theta, el, L, mm)[m + L - 1] on ring t of a grid
\* of nrings rings: zero outside |m| <= el, one fixed nonzero real inside, and
\* d^0_{00}(theta) = 1 on every ring
TurokSlice(nrings, t, el, L, mm, m) ==
    IF Abs(m) > el \/ Abs(mm) > el THEN CZero
    ELSE IF el = 0 THEN Real(1)
    ELSE Real(1 + ((nrings + 2 * t + 3 * el + 5 * (m + L) + 7 * (mm + L)) % 11))

\* np.sqrt((2 * el + 1) / (4 * np.pi)): one nonzero real per degree
ElFactor(el) == Real(2 * el + 1)

\* quadrature.quad_weights_transform(L, sampling, 0, nside)[t]
QuadWeight(t) == Real(t + 2)

\* ------------------------------------------------------- FFTs and resampling
\* np.fft.ifftshift of one row
IfftShiftRow(x) ==
    LET n == Cardinality(DOMAIN x)
    IN [j \in 0..(n - 1) |-> x[(j + (n \div 2)) % n]]

\* np.fft.fftshift of one row
FftShiftRow(x) ==
    LET n == Cardinality(DOMAIN x)
    IN [j \in 0..(n - 1) |-> x[(j + n - (n \div 2)) % n]]

\* np.fft.ifft(x, norm="forward") of one row: no scaling
IfftRow(x) ==
    LET n == Cardinality(DOMAIN x)
    IN [p \in 0..(n - 1) |->
          CSum([k \in 0..(n - 1) |-> CMul(x[k], Root(n, k * p))], 0, n - 1)]

\* np.fft.fft(x, norm="backward") of one row: no scaling
FftRow(x) ==
    LET n == Cardinality(DOMAIN x)
    IN [k \in 0..(n - 1) |->
          CSum([p \in 0..(n - 1) |-> CMul(x[p], Root(n, -(k * p)))], 0, n - 1)]

\* hp.healpix_ifft(ftm, L, nside): per ring, the inverse FFT of the 2L orders
\* -L..L-1 folded onto the ring's nphi samples
HealpixIfft(ftm, L, nside) ==
    [t \in DOMAIN ftm |->
        LET n == NPhiRing(t, nside)
        IN [p \in 0..(n - 1) |->
              CSum([c \in 0..(2 * L - 1) |-> CMul(ftm[t][c], Root(n, (c - L) * p))],
                   0, 2 * L - 1)]]

\* hp.healpix_fft(f, L, nside): per ring, the FFT extended periodically to the
\* 2L orders -L..L-1
HealpixFft(f, L, nside) ==
    [t \in DOMAIN f |->
        LET n == Cardinality(DOMAIN f[t])
        IN [c \in 0..(2 * L - 1) |->
              CSum([p \in 0..(n - 1) |-> CMul(f[t][p], Root(n, -((c - L) * p)))],
                   0, n - 1)]]

\* resampling.mw_to_mwss(f, L, spin): [L, 2L-1] samples to [L+1, 2L] samples
MwToMwss(f, L, spin) ==
    [t \in 0..L |-> [p \in 0..(2 * L - 1) |->
        f[t % NRows(f)][p % NCols(f)]]]

\* resampling.upsample_by_two_mwss(f, L, spin): [L+1, 2L] to [2L+1, 2L] samples
UpsampleByTwoMwss(f, L, spin) ==
    [t \in 0..(2 * L) |-> [p \in 0..(2 * L - 1) |->
        CAdd(f[t % NRows(f)][p % NCols(f)], f[(t + 1) % NRows(f)][p % NCols(f)])]]

\* --------------------------------------------------- s2fft/transform.py
\* a Fourier buffer filled from column 0 whatever the scheme
MOffsetNone(sampling) == 0

\* m_offset = 1 if sampling in ["mwss", "healpix"] else 0
MOffset(sampling) == IF sampling \in {"mwss", "healpix"} THEN 1 ELSE 0

\* first degree of range(max(L0, abs(spin)), L)
\* a loop over the degrees that starts at 0 whatever L0 and the spin
ElLoZero(spin, L0) == 0

ElLo(spin, L0) == Max(L0, Abs(spin))

\* (-1) ** spin * elfactor * dl[m + L - 1] * flm[el, m + L - 1]
InverseTerm(flm, nrings, t, el, L, spin, m) ==
    CScale(SignPow(spin),
           CMul(CMul(ElFactor(el), TurokSlice(nrings, t, el, L, -spin, m)),
                flm[el][m + L - 1]))

\* the sum over el of the terms of order m on ring t
InverseRingSum(flm, nrings, t, L, spin, L0, m) ==
    CSum([el \in ElLo(spin, L0)..(L - 1) |->
             IF Abs(m) <= el THEN InverseTerm(flm, nrings, t, el, L, spin, m) ELSE CZero],
         ElLo(spin, L0), L - 1)

\* _compute_inverse_direct
ComputeInverseDirect(flm, L, spin, sampling, nside, L0) ==
    LET T == NTheta(L, sampling, nside)
    IN [t \in 0..(T - 1) |-> [p \in 0..(NPhi(L, sampling, nside, t) - 1) |->
          CSum([j \in 0..(2 * L - 2) |->
                   CMul(InverseRingSum(flm, T, t, L, spin, L0, j - (L - 1)),
                        ExpIMPhi(L, sampling, nside, t, p, j - (L - 1)))],
               0, 2 * L - 2)]]

\* _compute_inverse_sov: the ftm buffer, [len(thetas), 2L-1]
InverseSovFtm(flm, L, spin, sampling, nside, L0) ==
    LET T == NTheta(L, sampling, nside)
    IN [t \in 0..(T - 1) |-> [j \in 0..(2 * L - 2) |->
          InverseRingSum(flm, T, t, L, spin, L0, j - (L - 1))]]

\* _compute_inverse_sov: the sum over m of ftm[t, m + L - 1] * exp(i m phi)
InverseSovSynth(ftm, L, sampling, nside) ==
    [t \in DOMAIN ftm |-> [p \in 0..(NPhi(L, sampling, nside, t) - 1) |->
        CSum([j \in 0..(2 * L - 2) |->
                 CMul(ftm[t][j], ExpIMPhi(L, sampling, nside, t, p, j - (L - 1)))],
             0, 2 * L - 2)]]

\* _compute_inverse_sov
ComputeInverseSov(flm, L, spin, sampling, nside, L0) ==
    InverseSovSynth(InverseSovFtm(flm, L, spin, sampling, nside, L0), L, sampling, nside)

\* _compute_inverse_sov_fft: the ftm buffer before the FFT
InverseSovFftFtm(flm, L, spin, sampling, nside, L0) ==
    LET shape == FtmShape(L, sampling, nside)
        off == MOffset(sampling)
    IN [t \in 0..(shape[1] - 1) |-> [c \in 0..(shape[2] - 1) |->
          IF c - off \in 0..(2 * L - 2)
          THEN CMul(InverseRingSum(flm, shape[1], t, L, spin, L0, c - off - (L - 1)),
                    IF Lower(sampling) = "healpix"
                    THEN ZetaPow[((c - off - (L - 1)) * PhiRingOffset(t, nside)) % 240]
                    ELSE COne)
          ELSE CZero]]

\* the sum over el of elfactor * dl * flm[el, :] * phase_shift at column j
InverseVecSum(flm, nrings, t, L, spin, sampling, nside, L0, j) ==
    CSum([el \in ElLo(spin, L0)..(L - 1) |->
             CMul(CMul(CMul(ElFactor(el),
                            TurokSlice(nrings, t, el, L, -spin, j - (L - 1))),
                       flm[el][j]),
                  IF Lower(sampling) = "healpix"
                  THEN RingPhaseShiftHp(L, t, nside, FALSE, j - (L - 1))
                  ELSE COne)],
         ElLo(spin, L0), L - 1)

\* _compute_inverse_sov_fft_vectorized: the ftm buffer before the FFT
InverseVecFtm(flm, L, spin, sampling, nside, L0) ==
    LET shape == FtmShape(L, sampling, nside)
        off == MOffset(sampling)
    IN [t \in 0..(shape[1] - 1) |-> [c \in 0..(shape[2] - 1) |->
          IF c - off \in 0..(2 * L - 2)
          THEN CScale(SignPow(spin),
                      InverseVecSum(flm, shape[1], t, L, spin, sampling, nside, L0, c - off))
          ELSE CZero]]

\* the FFT step shared by the FFT-based inverse transforms
InverseFft(ftm, L, sampling, nside) ==
    IF Lower(sampling) = "healpix"
    THEN HealpixIfft(ftm, L, nside)
    ELSE [t \in DOMAIN ftm |-> IfftRow(IfftShiftRow(ftm[t]))]

\* _compute_inverse_sov_fft
ComputeInverseSovFft(flm, L, spin, sampling, nside, L0) ==
    InverseFft(InverseSovFftFtm(flm, L, spin, sampling, nside, L0), L, sampling, nside)

\* _compute_inverse_sov_fft_vectorized
ComputeInverseSovFftVectorized(flm, L, spin, sampling, nside, L0) ==
    InverseFft(InverseVecFtm(flm, L, spin, sampling, nside, L0), L, sampling, nside)

\* rings of the grid the forward transform integrates over: thetas(2L, "mwss")
\* after resampling, thetas(L, sampling, nside) otherwise (_forward)
ForwardRings(L, sampling, nside) ==
    IF Lower(sampling) \in {"mw", "mwss"} THEN 2 * L + 1 ELSE NTheta(L, sampling, nside)

\* the sampling string after the resampling step of _forward
ForwardSampling(sampling) ==
    IF Lower(sampling) \in {"mw", "mwss"} THEN "mwss" ELSE sampling

\* the signal after the resampling step of _forward
ForwardResample(f, L, spin, sampling) ==
    LET g == IF Lower(sampling) = "mw" THEN MwToMwss(f, L, spin) ELSE f
    IN IF Lower(sampling) \in {"mw", "mwss"} THEN UpsampleByTwoMwss(g, L, spin) ELSE g

\* weights[t] * (-1) ** spin * elfactor * dl[m + L - 1]
ForwardCoeff(nrings, t, el, L, spin, m) ==
    CScale(SignPow(spin),
           CMul(CMul(QuadWeight(t), ElFactor(el)),
                TurokSlice(nrings, t, el, L, -spin, m)))

\* _compute_forward_direct
ComputeForwardDirect(f, L, spin, sampling, nrings, nside, L0) ==
    [el \in 0..(L - 1) |-> [j \in 0..(2 * L - 2) |->
        LET m == j - (L - 1)
        IN IF el >= ElLo(spin, L0) /\ Abs(m) <= el
           THEN CSum([t \in 0..(nrings - 1) |->
                        CSum([p \in 0..(NPhi(L, sampling, nside, t) - 1) |->
                                 CMul(CMul(ForwardCoeff(nrings, t, el, L, spin, m),
                                           ExpIMPhi(L, sampling, nside, t, p, -m)),
                                      f[t][p])],
                             0, NPhi(L, sampling, nside, t) - 1)],
                     0, nrings - 1)
           ELSE CZero]]

\* _compute_forward_sov: the ftm buffer, [len(thetas), 2L-1]
ForwardSovFtm(f, L, sampling, nrings, nside) ==
    [t \in 0..(nrings - 1) |-> [j \in 0..(2 * L - 2) |->
        CSum([p \in 0..(NPhi(L, sampling, nside, t) - 1) |->
                 CMul(ExpIMPhi(L, sampling, nside, t, p, -(j - (L - 1))), f[t][p])],
             0, NPhi(L, sampling, nside, t) - 1)]]

\* _compute_forward_sov: the contraction of ftm with the Wigner-d slices
ForwardSovContract(ftm, L, spin, nrings, L0) ==
    [el \in 0..(L - 1) |-> [j \in 0..(2 * L - 2) |->
        LET m == j - (L - 1)
        IN IF el >= ElLo(spin, L0) /\ Abs(m) <= el
           THEN CSum([t \in 0..(nrings - 1) |->
                        CMul(ForwardCoeff(nrings, t, el, L, spin, m), ftm[t][j])],
                     0, nrings - 1)
           ELSE CZero]]

\* _compute_forward_sov
ComputeForwardSov(f, L, spin, sampling, nrings, nside, L0) ==
    ForwardSovContract(ForwardSovFtm(f, L, sampling, nrings, nside), L, spin, nrings, L0)

\* the FFT step shared by the FFT-based forward transforms
ForwardFft(f, L, sampling, nside) ==
    IF Lower(sampling) = "healpix"
    THEN HealpixFft(f, L, nside)
    ELSE [t \in DOMAIN f |-> FftShiftRow(FftRow(f[t]))]

\* _compute_forward_sov_fft: the contraction of ftm with the Wigner-d slices
ForwardSovFftContract(ftm, L, spin, sampling, nrings, nside, L0) ==
    LET off == MOffset(sampling)
    IN [el \in 0..(L - 1) |-> [j \in 0..(2 * L - 2) |->
          LET m == j - (L - 1)
          IN IF el >= ElLo(spin, L0) /\ Abs(m) <= el
             THEN CSum([t \in 0..(nrings - 1) |->
                          CMul(CMul(ForwardCoeff(nrings, t, el, L, spin, m), ftm[t][j + off]),
                               IF Lower(sampling) = "healpix"
                               THEN CConj(ZetaPow[(m * PhiRingOffset(t, nside)) % 240])
                               ELSE COne)],
                       0, nrings - 1)
             ELSE CZero]]

\* _compute_forward_sov_fft
ComputeForwardSovFft(f, L, spin, sampling, nrings, nside, L0) ==
    ForwardSovFftContract(ForwardFft(f, L, sampling, nside),
                          L, spin, sampling, nrings, nside, L0)

\* _compute_forward_sov_fft_vectorized: every column of the rows it visits is
\* written, flm[el, :] += weights[t] * elfactor * dl * ftm[t, ...] * phase_shift
ForwardVecContract(ftm, L, spin, sampling, nrings, nside, L0) ==
    LET off == MOffset(sampling)
    IN [el \in 0..(L - 1) |-> [j \in 0..(2 * L - 2) |->
          IF el >= ElLo(spin, L0)
          THEN CScale(SignPow(spin),
                 CSum([t \in 0..(nrings - 1) |->
                          CMul(CMul(CMul(CMul(QuadWeight(t), ElFactor(el)),
                                         TurokSlice(nrings, t, el, L, -spin, j - (L - 1))),
                                    ftm[t][j + off]),
                               IF Lower(sampling) = "healpix"
                               THEN RingPhaseShiftHp(L, t, nside, TRUE, j - (L - 1))
                               ELSE COne)],
                      0, nrings - 1))
          ELSE CZero]]

\* _compute_forward_sov_fft_vectorized
ComputeForwardSovFftVectorized(f, L, spin, sampling, nrings, nside, L0) ==
    ForwardVecContract(ForwardFft(f, L, sampling, nside),
                       L, spin, sampling, nrings, nside, L0)

\* ------------------------------------------------------ numpy array shapes
\* two axis lengths numpy broadcasts against each other
BOK(a, b) == a = b \/ a = 1 \/ b = 1
\* the broadcast length
BDim(a, b) == IF a = 1 THEN b ELSE a
\* the index into an axis of length n that broadcasting reads for index i
BIx(i, n) == IF n = 1 THEN 0 ELSE i
\* a value of shape [rows, cols] can be assigned to a target of shape [trows, tcols]
AssignOK(rows, cols, trows, tcols) ==
    (rows = trows \/ rows = 1) /\ (cols = tcols \/ cols = 1)

\* a[:, from:]
SliceCols(a, from) ==
    [r \in DOMAIN a |-> [c \in 0..(NCols(a) - from - 1) |-> a[r][c + from]]]

\* a[:, from:] = src, src broadcast to the target
AssignCols(a, from, src) ==
    [r \in DOMAIN a |-> [c \in DOMAIN a[r] |->
        IF c >= from
        THEN src[BIx(r, NRows(src))][BIx(c - from, NCols(src))]
        ELSE a[r][c]]]

\* np.flip(a, axis=-1)
FlipCols(a) ==
    [r \in DOMAIN a |-> [c \in DOMAIN a[r] |-> a[r][NCols(a) - 1 - c]]]

\* scalar * a
ScaleAll(k, a) == [r \in DOMAIN a |-> [c \in DOMAIN a[r] |-> CScale(k, a[r][c])]]

\* --------------------------- s2fft/general_precompute/construct.py
\* wigner.turok.compute_slice(theta, el, L, mm, reality)[m + L - 1]: with the
\* reality flag only the orders m >= 0 are computed
TurokSliceReality(nrings, t, el, L, mm, reality, m) ==
    IF reality /\ m < 0 THEN CZero ELSE TurokSlice(nrings, t, el, L, mm, m)

\* healpix_phase_shifts(L, nside, forward)[t, m + L - 1]
HealpixPhaseShifts(L, nside, forward, t, m) == RingPhaseShiftHp(L, t, nside, forward, m)

\* rings of a kernel that is built on the doubled grid for forward mw only
KernelRingsMwOnly(L, sampling, nside, forward) ==
    IF forward /\ Lower(sampling) = "mw"
    THEN 2 * L + 1
    ELSE NTheta(L, sampling, nside)

\* rings of the kernel: thetas(2L, "mwss") for a forward mw/mwss kernel
KernelRings(L, sampling, nside, forward) ==
    IF forward /\ Lower(sampling) \in {"mw", "mwss"}
    THEN 2 * L + 1
    ELSE NTheta(L, sampling, nside)

\* spin_spherical_kernel(L, spin, reality, sampling, nside, forward)[t, el, j]
KernelEntry(L, spin, reality, sampling, nside, forward, t, el, j) ==
    LET nrings == KernelRings(L, sampling, nside, forward)
        m == j - (L - 1)
        d == IF el >= Abs(spin)
             THEN CMul(TurokSliceReality(nrings, t, el, L, -spin, reality, m), ElFactor(el))
             ELSE CZero
        w == IF forward THEN CMul(d, QuadWeight(t)) ELSE d
    IN IF Lower(sampling) = "healpix"
       THEN CMul(w, HealpixPhaseShifts(L, nside, forward, t, m))
       ELSE w

\* spin_spherical_kernel: an array of shape [rings, L, 2L-1]
SpinSphericalKernel(L, spin, reality, sampling, nside, forward) ==
    [t \in 0..(KernelRings(L, sampling, nside, forward) - 1) |->
        [el \in 0..(L - 1) |-> [j \in 0..(2 * L - 2) |->
            KernelEntry(L, spin, reality, sampling, nside, forward, t, el, j)]]]

\* kernel[:, :, from:]
SliceKernel(kernel, from) == [t \in DOMAIN kernel |-> SliceCols(kernel[t], from)]

\* --------------------- s2fft/precompute_transforms/spherical.py
\* m_start_ind = L - 1 if reality else 0
MStartInd(L, reality) == IF reality THEN L - 1 ELSE 0

\* np.einsum("...tlm, ...lm -> ...tm", kernel, x) accepts the shapes
EinsumInverseOK(kernel, x) ==
    /\ BOK(NRows(kernel[0]), NRows(x))
    /\ BOK(NCols(kernel[0]), NCols(x))

\* np.einsum("...tlm, ...lm -> ...tm", kernel, x)
EinsumInverse(kernel, x) ==
    LET Lk == NRows(kernel[0])
        Mk == NCols(kernel[0])
        Ls == BDim(Lk, NRows(x))
        Ms == BDim(Mk, NCols(x))
    IN [t \in DOMAIN kernel |-> [m \in 0..(Ms - 1) |->
          CSum([l \in 0..(Ls - 1) |->
                   CMul(kernel[t][BIx(l, Lk)][BIx(m, Mk)],
                        x[BIx(l, NRows(x))][BIx(m, NCols(x))])],
               0, Ls - 1)]]

\* np.einsum("...tlm, ...tm -> ...lm", kernel, x) accepts the shapes
EinsumForwardOK(kernel, x) ==
    /\ BOK(NRows(kernel), NRows(x))
    /\ BOK(NCols(kernel[0]), NCols(x))

\* np.einsum("...tlm, ...tm -> ...lm", kernel, x)
EinsumForward(kernel, x) ==
    LET Tk == NRows(kernel)
        Mk == NCols(kernel[0])
        Ts == BDim(Tk, NRows(x))
        Ms == BDim(Mk, NCols(x))
    IN [l \in DOMAIN kernel[0] |-> [m \in 0..(Ms - 1) |->
          CSum([t \in 0..(Ts - 1) |->
                   CMul(kernel[BIx(t, Tk)][l][BIx(m, Mk)],
                        x[BIx(t, NRows(x))][BIx(m, NCols(x))])],
               0, Ts - 1)]]

\* a[:, from:to] = src (src has to - from columns)
AssignRange(a, from, to, src) ==
    [r \in DOMAIN a |-> [c \in DOMAIN a[r] |->
        IF c >= from /\ c < to
        THEN src[BIx(r, NRows(src))][BIx(c - from, NCols(src))]
        ELSE a[r][c]]]

\* np.fft.irfft(x, n, norm="forward") of one row: the Hermitian extension of
\* the orders 0..n//2 (zero-padded), unscaled
IrfftRow(x, n) ==
    LET len == Cardinality(DOMAIN x)
        X(k) == IF k < len THEN x[k] ELSE CZero
    IN [p \in 0..(n - 1) |->
          CAdd(CAdd(CRealPart(X(0)),
                    CSum([k \in 1..((n - 1) \div 2) |->
                             LET z == CMul(X(k), Root(n, k * p))
                             IN CAdd(z, CConj(z))],
                         1, (n - 1) \div 2)),
               IF n % 2 = 0 THEN CScale(SignPow(p), CRealPart(X(n \div 2))) ELSE CZero)]

\* np.fft.rfft(np.real(x), norm="backward") of one row: orders 0..n//2
RfftRow(x) ==
    LET n == Cardinality(DOMAIN x)
        y == FftRow([p \in DOMAIN x |-> CRealPart(x[p])])
    IN [k \in 0..(n \div 2) |-> y[k]]

\* the result of a step: a value or the exception raised
Val(v) == [err |-> "none", val |-> v]
Raise(e) == [err |-> e, val |-> <<>>]

\* the contraction without ftm *= (-1) ** spin
InverseTransformContractUnsigned(flm, kernel, L, sampling, reality, spin, nside) ==
    LET off == MOffset(sampling)
        ms == MStartInd(L, reality)
        shape == FtmShape(L, sampling, nside)
        x == SliceCols(flm, ms)
    IN IF ~EinsumInverseOK(kernel, x) THEN Raise("ValueError")
       ELSE LET e == EinsumInverse(kernel, x)
            IN IF ~AssignOK(NRows(e), NCols(e), shape[1], shape[2] - ms - off)
               THEN Raise("ValueError")
               ELSE Val(AssignCols(Zeros2(shape[1], shape[2]), ms + off, e))

\* inverse_transform, lines 104-111: the contraction with the kernel
InverseTransformContract(flm, kernel, L, sampling, reality, spin, nside) ==
    LET off == MOffset(sampling)
        ms == MStartInd(L, reality)
        shape == FtmShape(L, sampling, nside)
        x == SliceCols(flm, ms)
    IN IF ~EinsumInverseOK(kernel, x) THEN Raise("ValueError")
       ELSE LET e == EinsumInverse(kernel, x)
            IN IF ~AssignOK(NRows(e), NCols(e), shape[1], shape[2] - ms - off)
               THEN Raise("ValueError")
               ELSE Val(ScaleAll(SignPow(spin),
                                 AssignCols(Zeros2(shape[1], shape[2]), ms + off, e)))

\* whether the backend rebuilds the negative orders of ftm before the FFT:
\* numpy only for HEALPix (lines 113-117), jax and torch always (181, 244)
InverseRebuilds(backend, sampling, reality) ==
    reality /\ (backend # "numpy" \/ Lower(sampling) = "healpix")

\* ftm[:, m_offset : m_start_ind + m_offset] =
\*     flip(conj(ftm[:, m_start_ind + m_offset + 1 :]), axis=-1)
InverseTransformReality(ftm, L, sampling) ==
    LET off == MOffset(sampling)
        ms == L - 1
        src == SliceCols(ftm, ms + off + 1)
        flipped == FlipCols([r \in DOMAIN src |-> [c \in DOMAIN src[r] |-> CConj(src[r][c])]])
    IN IF ~AssignOK(NRows(src), NCols(src), NRows(ftm), ms)
       THEN Raise("ValueError")
       ELSE Val(AssignRange(ftm, off, ms + off, flipped))

\* the inverse FFT step of inverse_transform / _jax / _torch
InverseTransformFft(backend, ftm, L, sampling, reality, nside) ==
    LET off == MOffset(sampling)
        ms == MStartInd(L, reality)
        real(a) == [r \in DOMAIN a |-> [c \in DOMAIN a[r] |-> CRealPart(a[r][c])]]
    IN IF Lower(sampling) = "healpix"
       THEN IF reality THEN real(HealpixIfft(ftm, L, nside)) ELSE HealpixIfft(ftm, L, nside)
       ELSE IF reality /\ backend = "numpy"
       THEN LET x == SliceCols(ftm, ms + off)
            IN [t \in DOMAIN x |-> IrfftRow(x[t], NPhiEquiang(L, sampling))]
       ELSE LET f == [t \in DOMAIN ftm |-> IfftRow(IfftShiftRow(ftm[t]))]
            IN IF reality THEN real(f) ELSE f

\* forward_transform, lines 356-370: the per-ring FFT and the slicing of its
\* orders to those the kernel holds
ForwardTransformFft(f, L, sampling, reality, nside) ==
    LET off == MOffset(sampling)
        ms == MStartInd(L, reality)
    IN IF Lower(sampling) = "healpix"
       THEN LET ftm == SliceCols(HealpixFft(f, L, nside), off)
            IN IF reality THEN SliceCols(ftm, ms) ELSE ftm
       ELSE IF reality
       THEN LET ftm == [t \in DOMAIN f |-> RfftRow(f[t])]
            IN IF off # 0
               THEN [t \in DOMAIN ftm |-> [c \in 0..(NCols(ftm) - 2) |-> ftm[t][c]]]
               ELSE ftm
       ELSE SliceCols([t \in DOMAIN f |-> FftShiftRow(FftRow(f[t]))], off)

\* forward_transform, lines 371-372: the contraction with the kernel
ForwardTransformContract(ftm, kernel, L, reality) ==
    LET ms == MStartInd(L, reality)
    IN IF ~EinsumForwardOK(kernel, ftm) THEN Raise("ValueError")
       ELSE LET e == EinsumForward(kernel, ftm)
            IN IF ~AssignOK(NRows(e), NCols(e), L, 2 * L - 1 - ms)
               THEN Raise("ValueError")
               ELSE Val(AssignCols(Zeros2(L, 2 * L - 1), ms, e))

\* the reconstruction sign left out
RealitySignPlus(m) == 1

\* (-1) ** (np.arange(1, L) % 2) at order m
RealitySign(m) == SignPow(m % 2)

\* the reconstruction with its source slice taken one column too early,
\* flm[:, m_start_ind : -1] in place of flm[:, m_start_ind + 1 :]
ForwardTransformRealityShifted(flm, L) ==
    [el \in DOMAIN flm |-> [j \in DOMAIN flm[el] |->
        IF j < L - 1
        THEN LET src == [i \in 0..(L - 2) |->
                            CScale(RealitySign(i + 1), CConj(flm[el][L - 1 + i]))]
             IN src[(L - 2) - j]
        ELSE flm[el][j]]]

\* forward_transform, lines 374-378: flm[:, :m_start_ind] =
\*     flip((-1) ** (arange(1, L) % 2) * conj(flm[:, m_start_ind + 1 :]), axis=-1)
ForwardTransformReality(flm, L) ==
    [el \in DOMAIN flm |-> [j \in DOMAIN flm[el] |->
        IF j < L - 1
        THEN LET src == [i \in 0..(L - 2) |->
                            CScale(RealitySign(i + 1), CConj(flm[el][L + i]))]
             IN src[(L - 2) - j]
        ELSE flm[el][j]]]

\* forward_transform, line 380: return flm * (-1) ** spin
ForwardTransformReturn(flm, spin) == ScaleAll(SignPow(spin), flm)

\* the full-array forms of the two kernel-based transforms, composed of the
\* steps above: inverse_transform / _jax / _torch
InverseTransform(backend, flm, kernel, L, sampling, reality, spin, nside) ==
    LET c == InverseTransformContract(flm, kernel, L, sampling, reality, spin, nside)
    IN IF c.err # "none" THEN c
       ELSE IF InverseRebuilds(backend, sampling, reality)
       THEN LET r == InverseTransformReality(c.val, L, sampling)
            IN IF r.err # "none" THEN r
               ELSE Val(InverseTransformFft(backend, r.val, L, sampling, reality, nside))
       ELSE Val(InverseTransformFft(backend, c.val, L, sampling, reality, nside))

\* forward_transform / _jax / _torch
ForwardTransform(f, kernel, L, sampling, reality, spin, nside) ==
    LET ftm == ForwardTransformFft(ForwardResample(f, L, spin, sampling), L,
                                   ForwardSampling(sampling), reality, nside)
        c == ForwardTransformContract(ftm, kernel, L, reality)
    IN IF c.err # "none" THEN c
       ELSE Val(ForwardTransformReturn(
                    IF reality THEN ForwardTransformReality(c.val, L) ELSE c.val, spin))

\* ------------------------------------------------------------ the callers
\* what a caller passes: band-limits, spins with |spin| >= L among them, lower
\* bounds with L0 >= L among them, the schemes (one also spelled in capitals),
\* the four on-the-fly methods, the backends and one unknown backend name
BandLimits == 1..MaxL
Spins == (-1)..MaxL
KernelSpins == (-1)..1
LowerBounds == 0..MaxL
Samplings == {"mw", "mwss", "dh", "healpix", "MWSS"}
Methods == {"direct", "sov", "sov_fft", "sov_fft_vectorized"}
\* the scheme strings a caller of _inverse passes: Samplings and one more
\* spelling that sampling.lower() accepts
Spellings == Samplings \cup {"HEALPIX"}
Backends == {"numpy", "jax", "torch", "cuda"}
Nsides(sampling) == IF Lower(sampling) = "healpix" THEN 1..MaxNside ELSE {0}

\* entry (r, c) of the array a caller fills from seed: seed 0 is real-valued
Value(seed, r, c) == <<(1 + 7 * seed + 3 * r + 5 * c) % P, (seed * (2 + r + 2 * c)) % P>>

\* coefficient arrays: the shape flm_shape(L), one column too many, one row only
FlmInput(L, shape, seed) ==
    LET rows == IF shape = "short" THEN 1 ELSE L
        cols == IF shape = "wide" THEN 2 * L ELSE 2 * L - 1
    IN [r \in 0..(rows - 1) |-> [c \in 0..(cols - 1) |-> Value(seed, r, c)]]

\* signals: the shape f_shape(L, sampling, nside), one sample too many on each
\* ring, one ring only
SignalInput(L, sampling, nside, shape, seed) ==
    LET rows == IF shape = "short" THEN 1 ELSE NTheta(L, sampling, nside)
        more == IF shape = "wide" /\ Lower(sampling) # "healpix" THEN 1 ELSE 0
    IN [t \in 0..(rows - 1) |->
          [p \in 0..(NPhi(L, sampling, nside, t) + more - 1) |-> Value(seed, t, p)]]

InputShapes == {"exact", "wide", "short"}
Seeds == {0, 1}

\* flm.shape == samples.flm_shape(L)
FlmShapeOK(flm, L) == <<NRows(flm), NCols(flm)>> = FlmShape(L)

\* f.shape == samples.f_shape(L, sampling, nside)
FShapeOK(f, L, sampling, nside) ==
    /\ NRows(f) = NTheta(L, sampling, nside)
    /\ \A t \in DOMAIN f : Cardinality(DOMAIN f[t]) = NPhi(L, sampling, nside, t)

\* the kernel a caller hands to the kernel-based transforms: the array built
\* by spin_spherical_kernel, or its non-negative orders kernel[:, :, L-1:]
KernelOf(c, forward) ==
    LET k == SpinSphericalKernel(c.L, c.spin, c.reality, c.sampling, c.nside, forward)
    IN IF c.kernel = "half" THEN SliceKernel(k, c.L - 1) ELSE k

\* ----------------------------------------------- s2fft/wigner/price_mcewen.py
\* The float64 arrays of the recursion are modelled in GF(P). The quadratic
\* residues stand for the positive reals: exactly one of x, -x is a residue,
\* they form a cyclic group of order (P - 1) / 2 generated by PosGen, so that
\* abs, log, exp and sqrt keep their algebra: exp(log|x|) = |x|,
\* exp(a + b) = exp(a) exp(b), sqrt(x)^2 = |x|. Logarithms are integers modulo
\* (P - 1) / 2. PosInf, NegInf and NaN are the non-finite floats, with the
\* IEEE rules of the operations the code applies to them.
PosGen == 49
LogMod == (P - 1) \div 2
PosInf == P
NegInf == P + 1
NaN == P + 2

RECURSIVE PPow(_, _)
PPow(x, k) ==
    IF k = 0 THEN 1
    ELSE IF k % 2 = 0 THEN LET h == PPow(x, k \div 2) IN (h * h) % P
    ELSE (x * PPow(x, k - 1)) % P

ExpTable == [k \in 0..(LogMod - 1) |-> PPow(PosGen, k)]
Positives == {ExpTable[k] : k \in 0..(LogMod - 1)}
\* the logarithm of |x| for finite x # 0
LogTable ==
    [x \in 1..(P - 1) |->
        CHOOSE k \in 0..(LogMod - 1) : ExpTable[k] = x \/ ExpTable[k] = P - x]
InvTable == [x \in 1..(P - 1) |-> PPow(x, P - 2)]

IsFinite(a) == a < P
\* the sign of a float that is not nan
SignOf(a) ==
    IF a = PosInf THEN 1
    ELSE IF a = NegInf THEN -1
    ELSE IF a = 0 THEN 0
    ELSE IF a \in Positives THEN 1 ELSE -1
InfOf(sign) == IF sign > 0 THEN PosInf ELSE NegInf

\* the sum of two values of which one is not finite
InfSum(a, b) ==
    IF a = NaN \/ b = NaN THEN NaN
    ELSE IF IsFinite(a) THEN b
    ELSE IF IsFinite(b) \/ a = b THEN a
    ELSE NaN

RNeg(a) ==
    IF IsFinite(a) THEN (P - a) % P
    ELSE IF a = NaN THEN NaN ELSE InfOf(-SignOf(a))
RAdd(a, b) == IF IsFinite(a) /\ IsFinite(b) THEN (a + b) % P ELSE InfSum(a, b)
RSub(a, b) == RAdd(a, RNeg(b))
RMul(a, b) ==
    IF IsFinite(a) /\ IsFinite(b) THEN (a * b) % P
    ELSE IF a = NaN \/ b = NaN \/ SignOf(a) * SignOf(b) = 0 THEN NaN
    ELSE InfOf(SignOf(a) * SignOf(b))
\* 1.0 / a; the zeros the code divides by are positive zeros
RInv(a) ==
    IF a = NaN THEN NaN
    ELSE IF ~IsFinite(a) THEN 0
    ELSE IF a = 0 THEN PosInf
    ELSE InvTable[a]
RDiv(a, b) == RMul(a, RInv(b))
RInt(k) == k % P

\* abs(x)
RAbs(x) ==
    IF x = NaN THEN NaN
    ELSE IF ~IsFinite(x) THEN PosInf
    ELSE IF x = 0 \/ x \in Positives THEN x ELSE P - x

\* np.log(abs(x))
RLog(x) ==
    IF x = NaN THEN NaN
    ELSE IF ~IsFinite(x) THEN PosInf
    ELSE IF x = 0 THEN NegInf
    ELSE LogTable[x]

\* np.exp(v)
RExp(v) ==
    IF v = NaN \/ v = PosInf THEN v
    ELSE IF v = NegInf THEN 0
    ELSE ExpTable[v % LogMod]

\* sums of logarithms, k * v for an integer k >= 0, and v / 2
LAdd(a, b) == IF IsFinite(a) /\ IsFinite(b) THEN (a + b) % LogMod ELSE InfSum(a, b)
LScale(k, a) ==
    IF IsFinite(a) THEN (k * a) % LogMod
    ELSE IF k = 0 THEN NaN ELSE a
LHalf(a) == IF IsFinite(a) THEN (((LogMod + 1) \div 2) * a) % LogMod ELSE a

\* np.sqrt(x) of an integer x
RSqrtInt(x) ==
    IF x < 0 THEN NaN
    ELSE IF x = 0 THEN 0
    ELSE RExp(LHalf(RLog(RInt(x))))

\* np.log(num / den) / 2 for integers num and den > 0
HalfLogRatio(num, den) ==
    IF num < 0 THEN NaN
    ELSE IF num = 0 THEN NegInf
    ELSE LHalf(RLog(RDiv(RInt(num), RInt(den))))

\* the polar angles: angle b is 2 b times 2 pi / 240, so that its half is on
\* the circle of Zeta too; the rings of a grid are at angles off the poles
Beta(t) == 7 + 11 * t
CosB(b) == ZetaPow[(2 * b) % 240][1]
SinB(b) == ZetaPow[(2 * b) % 240][2]
CosHalfB(b) == ZetaPow[b % 240][1]
TanNegHalfB(b) == RDiv(RInt(-ZetaPow[b % 240][2]), ZetaPow[b % 240][1])
CotB(b) == RDiv(CosB(b), SinB(b))

\* a[i] as Python reads it for an axis of length len: negative i counts from
\* the end; -1 when i is out of range
PyIndex(i, len) ==
    LET k == IF i < 0 THEN i + len ELSE i
    IN IF k >= 0 /\ k < len THEN k ELSE -1

\* len(beta) in generate_precomputes
PrecomputeRings(L, sampling, nside, forward) ==
    IF forward /\ Lower(sampling) \in {"mw", "mwss"}
    THEN 2 * L - 1
    ELSE NTheta(L, sampling, nside)

\* half_slices[i][el]
HalfSlice(i, el, mm) == IF i = 0 THEN el + mm + 1 ELSE el - mm + 1

\* log_first_row[r, t, el]
RECURSIVE LogFirstRow(_, _, _, _, _)
LogFirstRow(r, t, el, L, mm) ==
    IF r = 0 THEN LScale(2 * el, RLog(CosHalfB(Beta(t))))
    ELSE IF r > L + Abs(mm) THEN 0
    ELSE LAdd(LAdd(LogFirstRow(r - 1, t, el, L, mm), HalfLogRatio(2 * el + 1 - r, r)),
              RLog(TanNegHalfB(Beta(t))))

\* cpi[r, el] and cp2[r, el] before the rolls
CpiUnrolled(r, el, L) ==
    IF r >= L THEN 0 ELSE RDiv(2, RSqrtInt((r + 1) * (2 * el - r)))

Cp2Unrolled(r, el, L) ==
    IF r = 0 \/ r >= L THEN 0 ELSE RDiv(CpiUnrolled(r, el, L), CpiUnrolled(r - 1, el, L))

\* np.roll(column, L - k - 1): entry r comes from entry r - (L - k - 1)
RollSource(r, k, L) == (r - (L - k - 1)) % (L + 1)

\* generate_precomputes(L, spin, sampling, nside, forward)
GeneratePrecomputes(L, spin, sampling, nside, forward) ==
    LET mm == -spin
        ntheta == PrecomputeRings(L, sampling, nside, forward)
        rings == 0..(ntheta - 1)
        els == 0..(L - 1)
    IN [lrenorm |-> [i \in 0..1 |-> [t \in rings |-> [el \in els |->
                       LogFirstRow(PyIndex(HalfSlice(i, el, mm) - 1, 2 * L + 1), t, el, L, mm)]]],
        lamb |-> [i \in 0..1 |-> [t \in rings |-> [el \in els |->
                    RSub(RDiv(RAdd(RSub(RMul(RInt(el + 1), RSub(1, CosB(Beta(t)))),
                                        RInt(HalfSlice(i, el, mm))),
                                   CosB(Beta(t))),
                              SinB(Beta(t))),
                         RMul(RInt(L - el - 1), CotB(Beta(t))))]]],
        vsign |-> [r \in 0..(2 * L - 2) |-> [el \in els |->
                     RInt((IF r < L - 1 THEN SignPow(r) * SignPow(Abs(mm + 1 + L)) ELSE 1)
                          * SignPow(Abs(mm + el)))]],
        cpi |-> [r \in 0..L |-> [el \in els |-> CpiUnrolled(RollSource(r, el, L), el, L)]],
        cp2 |-> [r \in 0..L |-> [el \in els |-> Cp2Unrolled(RollSource(r, el, L), el, L)]],
        cs |-> [t \in rings |-> CotB(Beta(t))],
        indices |-> [t \in rings |-> [el \in els |-> el]]]

\* lrenorm[i, t, el] of generate_precomputes_jax: zeros, replaced by
\* log_first_row_iter where 1 == half_slices[i] and, in round i of
\* lax.fori_loop(2, L + abs(mm) + 2, ...), where i == half_slices[i]
LRenormJax(i, t, el, L, mm) ==
    LET hs == HalfSlice(i, el, mm)
    IN IF hs >= 1 /\ hs <= L + Abs(mm) + 1 THEN LogFirstRow(hs - 1, t, el, L, mm) ELSE 0

\* generate_precomputes_jax(L, spin, sampling, nside, forward)
GeneratePrecomputesJax(L, spin, sampling, nside, forward) ==
    LET mm == -spin
        ntheta == PrecomputeRings(L, sampling, nside, forward)
        rings == 0..(ntheta - 1)
        els == 0..(L - 1)
    IN [lrenorm |-> [i \in 0..1 |-> [t \in rings |-> [el \in els |->
                       LRenormJax(i, t, el, L, mm)]]],
        lamb |-> [i \in 0..1 |-> [t \in rings |-> [el \in els |->
                    RAdd(RAdd(0, RDiv(RAdd(RSub(RMul(RSub(1, CosB(Beta(t))), RInt(el + 1)),
                                                RInt(HalfSlice(i, el, mm))),
                                           CosB(Beta(t))),
                                      SinB(Beta(t)))),
                         RNeg(RMul(CotB(Beta(t)), RInt(L - el - 1))))]]],
        vsign |-> [r \in 0..(2 * L - 2) |-> [el \in els |->
                     RInt((IF r < L - 1 THEN SignPow(r) * SignPow(Abs(mm + 1 + L)) ELSE 1)
                          * SignPow(Abs(mm + el)))]],
        cpi |-> [r \in 0..L |-> [el \in els |-> CpiUnrolled(RollSource(r, el, L), el, L)]],
        cp2 |-> [r \in 0..L |-> [el \in els |-> Cp2Unrolled(RollSource(r, el, L), el, L)]],
        cs |-> [t \in rings |-> CotB(Beta(t))],
        indices |-> [t \in rings |-> [el \in els |-> el]]]

\* the first column of a[s:] on an axis of length len
SliceStart(s, len) == IF s < 0 THEN Max(0, len + s) ELSE Min(s, len)

\* the arrays compute_all_slices starts from
RealZeros3(n1, n2, n3) ==
    [a \in 0..(n1 - 1) |-> [b \in 0..(n2 - 1) |-> [c \in 0..(n3 - 1) |-> 0]]]
RealZeros2B(n1, n2) == [a \in 0..(n1 - 1) |-> [b \in 0..(n2 - 1) |-> 0]]
RealOnes3(n1, n2, n3) ==
    [a \in 0..(n1 - 1) |-> [b \in 0..(n2 - 1) |-> [c \in 0..(n3 - 1) |-> 1]]]

\* sind and sgn of half-pass i
Sind(i) == IF i = 0 THEN 0 ELSE -1
Sgn(i) == SignPow(i)

\* The head of a half-pass that writes row sind + sgn at every degree.
HalfPassHeadAllDegrees(i, L, ntheta, pre, st, backend) ==
    LET lind == L - 1
        rows == 2 * L - 1
        r0 == PyIndex(Sind(i), rows)
        r1 == PyIndex(Sind(i) + Sgn(i), rows)
        from1 == 0
        iter == [RealOnes3(2, ntheta, L) EXCEPT
                    ![1] = [t \in 0..(ntheta - 1) |-> [el \in 0..(L - 1) |->
                              IF el >= lind
                              THEN RMul(pre.cpi[0][el], RMul(1, st.lamb[i][t][el]))
                              ELSE 1]]]
        dl0 == [st.dl_test EXCEPT
                    ![r0] = [t \in 0..(ntheta - 1) |-> [el \in 0..(L - 1) |->
                              IF el >= lind
                              THEN RMul(RMul(iter[0][t][el], pre.vsign[r0][el]),
                                        RExp(st.lrenorm[i][t][el]))
                              ELSE st.dl_test[r0][t][el]]]]
        dl1 == IF r1 = -1 THEN dl0
               ELSE [dl0 EXCEPT
                    ![r1] = [t \in 0..(ntheta - 1) |-> [el \in 0..(L - 1) |->
                              IF el >= from1
                              THEN RMul(RMul(iter[1][t][el], pre.vsign[r1][el]),
                                        RExp(st.lrenorm[i][t][el]))
                              ELSE dl0[r1][t][el]]]]
    IN [st EXCEPT
            !.err = IF r1 = -1 /\ backend = "numpy" THEN "IndexError" ELSE st.err,
            !.dl_test = dl1,
            !.written = st.written
                \cup {<<r0, t, el>> : t \in 0..(ntheta - 1), el \in lind..(L - 1)}
                \cup (IF r1 = -1 THEN {}
                      ELSE {<<r1, t, el>> : t \in 0..(ntheta - 1), el \in from1..(L - 1)}),
            !.dl_iter = iter,
            !.dl_entry = RealZeros2B(ntheta, L)]

\* The head of half-pass i (lines 318-338): dl_iter is reset, its row 1 is set
\* at the last degree, and rows sind and sind + sgn of dl_test are written.
\* Reading vsign[sind + sgn] out of range raises in numpy; the jax scatter
\* drops the update.
HalfPassHead(i, L, ntheta, pre, st, backend) ==
    LET lind == L - 1
        rows == 2 * L - 1
        r0 == PyIndex(Sind(i), rows)
        r1 == PyIndex(Sind(i) + Sgn(i), rows)
        from1 == SliceStart(lind - 1, L)
        iter == [RealOnes3(2, ntheta, L) EXCEPT
                    ![1] = [t \in 0..(ntheta - 1) |-> [el \in 0..(L - 1) |->
                              IF el >= lind
                              THEN RMul(pre.cpi[0][el], RMul(1, st.lamb[i][t][el]))
                              ELSE 1]]]
        dl0 == [st.dl_test EXCEPT
                    ![r0] = [t \in 0..(ntheta - 1) |-> [el \in 0..(L - 1) |->
                              IF el >= lind
                              THEN RMul(RMul(iter[0][t][el], pre.vsign[r0][el]),
                                        RExp(st.lrenorm[i][t][el]))
                              ELSE st.dl_test[r0][t][el]]]]
        dl1 == IF r1 = -1 THEN dl0
               ELSE [dl0 EXCEPT
                    ![r1] = [t \in 0..(ntheta - 1) |-> [el \in 0..(L - 1) |->
                              IF el >= from1
                              THEN RMul(RMul(iter[1][t][el], pre.vsign[r1][el]),
                                        RExp(st.lrenorm[i][t][el]))
                              ELSE dl0[r1][t][el]]]]
    IN [st EXCEPT
            !.err = IF r1 = -1 /\ backend = "numpy" THEN "IndexError" ELSE st.err,
            !.dl_test = dl1,
            !.written = st.written
                \cup {<<r0, t, el>> : t \in 0..(ntheta - 1), el \in lind..(L - 1)}
                \cup (IF r1 = -1 THEN {}
                      ELSE {<<r1, t, el>> : t \in 0..(ntheta - 1), el \in from1..(L - 1)}),
            !.dl_iter = iter,
            !.dl_entry = RealZeros2B(ntheta, L)]

\* One step m of the recursion of half-pass i (lines 340-361, 443-466).
\* np.where is pointwise; lamb[i] and lrenorm[i] are the arrays of the state.
RecursionStep(i, m, L, ntheta, pre, st) ==
    LET rings == 0..(ntheta - 1)
        els == 0..(L - 1)
        index == [t \in rings |-> [el \in els |-> pre.indices[t][el] >= L - m - 1]]
        lamb == [st.lamb EXCEPT ![i] = [t \in rings |-> [el \in els |->
                    RAdd(st.lamb[i][t][el], pre.cs[t])]]]
        computed == [t \in rings |-> [el \in els |->
                    IF index[t][el]
                    THEN RSub(RMul(pre.cpi[PyIndex(m - 1, L + 1)][el],
                                   RMul(st.dl_iter[1][t][el], lamb[i][t][el])),
                              RMul(pre.cp2[PyIndex(m - 1, L + 1)][el], st.dl_iter[0][t][el]))
                    ELSE st.dl_entry[t][el]]]
        dl_entry == [t \in rings |-> [el \in els |->
                    IF el = PyIndex(-(m + 1), L) THEN 1 ELSE computed[t][el]]]
        row == PyIndex(Sind(i) + Sgn(i) * m, 2 * L - 1)
        bigi == [t \in rings |-> [el \in els |-> RDiv(1, RAbs(dl_entry[t][el]))]]
        lbig == [t \in rings |-> [el \in els |-> RLog(dl_entry[t][el])]]
    IN [st EXCEPT
            !.lamb = lamb,
            !.dl_entry = dl_entry,
            !.written = st.written
                \cup {w \in {row} \X rings \X els : index[w[2]][w[3]]},
            !.dl_test[row] = [t \in rings |-> [el \in els |->
                    IF index[t][el]
                    THEN RMul(RMul(dl_entry[t][el], pre.vsign[row][el]),
                              RExp(st.lrenorm[i][t][el]))
                    ELSE st.dl_test[row][t][el]]],
            !.dl_iter = [k \in 0..1 |-> [t \in rings |-> [el \in els |->
                    IF ~index[t][el] THEN st.dl_iter[k][t][el]
                    ELSE IF k = 0 THEN RMul(bigi[t][el], st.dl_iter[1][t][el])
                    ELSE RMul(bigi[t][el], dl_entry[t][el])]]],
            !.lrenorm[i] = [t \in rings |-> [el \in els |->
                    IF index[t][el]
                    THEN LAdd(st.lrenorm[i][t][el], lbig[t][el])
                    ELSE st.lrenorm[i][t][el]]]]

\* for m in range(m, L)
RECURSIVE RecursionLoop(_, _, _, _, _, _)
RecursionLoop(i, m, L, ntheta, pre, st) ==
    IF m >= L THEN st
    ELSE RecursionLoop(i, m + 1, L, ntheta, pre, RecursionStep(i, m, L, ntheta, pre, st))

\* half-pass i: nothing more happens once the head has raised
HalfPassFrom(i, L, ntheta, pre, st, head) ==
    IF head.err # "none" THEN [head EXCEPT !.lamb = st.lamb, !.lrenorm = st.lrenorm]
    ELSE RecursionLoop(i, 2, L, ntheta, pre, head)

HalfPass(i, L, ntheta, pre, st, backend) ==
    IF st.err # "none" THEN st
    ELSE HalfPassFrom(i, L, ntheta, pre, st, HalfPassHead(i, L, ntheta, pre, st, backend))

\* Both half-passes from the arrays of the bundle precomps.
AllSlicesRun(backend, ntheta, L, precomps) ==
    LET st0 == [err |-> "none",
                written |-> {},
                dl_test |-> RealZeros3(2 * L - 1, ntheta, L),
                dl_iter |-> RealOnes3(2, ntheta, L),
                dl_entry |-> RealZeros2B(ntheta, L),
                lamb |-> precomps.lamb,
                lrenorm |-> precomps.lrenorm]
    IN HalfPass(1, L, ntheta, precomps, HalfPass(0, L, ntheta, precomps, st0, backend), backend)

\* compute_all_slices (backend "numpy") and compute_all_slices_jax ("jax") with
\* a bundle: the returned slice, and the arrays of the caller's bundle after
\* the call. numpy adds to lamb[i] and assigns lrenorm[i] in the caller's
\* arrays; jax carries new arrays through lax.fori_loop.
AllSlicesResult(backend, precomps, run) ==
    [ret |-> IF run.err = "none" THEN Val(run.dl_test) ELSE Raise(run.err),
     written |-> run.written,
     precomps |-> IF backend = "numpy"
                  THEN [precomps EXCEPT !.lamb = run.lamb, !.lrenorm = run.lrenorm]
                  ELSE precomps]

ComputeAllSlices(backend, ntheta, L, spin, precomps) ==
    AllSlicesResult(backend, precomps, AllSlicesRun(backend, ntheta, L, precomps))

\* compute_all_slices(beta, L, spin) with precomps=None (lines 312-313,
\* 410-411): generate_precomputes(beta, L, mm) receives the angles as its
\* band-limit, L as its spin and mm as its sampling, and samples.thetas raises
\* on them.
ComputeAllSlicesDefault(backend, ntheta, L, spin) == Raise("Exception")

\* -------------------------------------------- s2harmonic/wigner/trapani.py
\* The plane dl is held as its shape, the fill it was allocated with and the
\* entries written since; its entries are float64, modelled as the reals of
\* price_mcewen.py above.
StableLimit == 1024       \* if L > 1024 in _arg_checks
MaxTL == 3                \* band-limits 1..MaxTL of the planes that are filled
MaxStray == 1             \* calls on a plane besides compute_full in order

\* entry (r, c) of a plane as the caller allocated it: zeros for seed 0
Fill(seed, r, c) == (seed * (1 + 3 * r + 5 * c)) % P

NewPlane(rows, cols, seed) ==
    [rows |-> rows, cols |-> cols, seed |-> seed, data |-> [ix \in {} |-> 0]]

\* dl[m + (L - 1), mm + (L - 1)]
DlAt(dl, L, m, mm) ==
    LET ix == <<m + (L - 1), mm + (L - 1)>>
    IN IF ix \in DOMAIN dl.data THEN dl.data[ix] ELSE Fill(dl.seed, ix[1], ix[2])

\* the plane after the entries (m, mm) of W were assigned the values val
Assigned(dl, L, val) ==
    [dl EXCEPT !.data =
        [ix \in DOMAIN dl.data \cup {<<w[1] + (L - 1), w[2] + (L - 1)>> : w \in DOMAIN val} |->
            LET w == <<ix[1] - (L - 1), ix[2] - (L - 1)>>
            IN IF w \in DOMAIN val THEN val[w] ELSE dl.data[ix]]]

\* _arg_checks without the assertion on the shape of the plane
ArgChecksNoShape(dl, L, el) ==
    IF ~(0 <= el /\ el < L) THEN [err |-> "AssertionError", warnings |-> 0]
    ELSE [err |-> "none", warnings |-> IF L > StableLimit THEN 1 ELSE 0]

\* _arg_checks without the warning
ArgChecksSilent(dl, L, el) ==
    IF ~(0 <= el /\ el < L) THEN [err |-> "AssertionError", warnings |-> 0]
    ELSE IF ~(dl.rows = dl.cols /\ dl.cols = 2 * L - 1)
    THEN [err |-> "AssertionError", warnings |-> 0]
    ELSE [err |-> "none", warnings |-> 0]

\* _arg_checks(dl, L, el): the two assertions, then the warning
ArgChecks(dl, L, el) ==
    IF ~(0 <= el /\ el < L) THEN [err |-> "AssertionError", warnings |-> 0]
    ELSE IF ~(dl.rows = dl.cols /\ dl.cols = 2 * L - 1)
    THEN [err |-> "AssertionError", warnings |-> 0]
    ELSE [err |-> "none", warnings |-> IF L > StableLimit THEN 1 ELSE 0]

\* dmm[mm], equations (9) and (10)
Dmm(dl, L, el, mm) ==
    IF mm = 0
    THEN RMul(RNeg(RExp(HalfLogRatio(2 * el - 1, 2 * el))), DlAt(dl, L, el - 1, 0))
    ELSE RMul(RDiv(RDiv(RMul(RDiv(RSqrtInt(el), RSqrtInt(2)), RSqrtInt(2 * el - 1)),
                        RSqrtInt(el + mm)),
                   RSqrtInt(el + mm - 1)),
              DlAt(dl, L, el - 1, mm - 1))

\* 2 * mm / np.sqrt(el - m) / np.sqrt(el + m + 1) * d
EighthT1(el, m, mm, d) ==
    RMul(RDiv(RDiv(RInt(2 * mm), RSqrtInt(el - m)), RSqrtInt(el + m + 1)), d)

\* np.sqrt(el - m - 1) * np.sqrt(el + m + 2) / np.sqrt(el - m) / np.sqrt(el + m + 1) * d
EighthT2(el, m, mm, d) ==
    RMul(RDiv(RDiv(RMul(RSqrtInt(el - m - 1), RSqrtInt(el + m + 2)), RSqrtInt(el - m)),
              RSqrtInt(el + m + 1)),
         d)

\* what compute_eighth leaves in dl[m + (L - 1), mm + (L - 1)] for el > 0:
\* row el from dmm, row el - 1 from row el, the rows below from the two above
RECURSIVE EighthEntry(_, _, _, _, _)
EighthEntry(dl, L, el, m, mm) ==
    IF m = el THEN Dmm(dl, L, el, mm)
    ELSE IF m = el - 1 THEN EighthT1(el, m, mm, EighthEntry(dl, L, el, m + 1, mm))
    ELSE RSub(EighthT1(el, m, mm, EighthEntry(dl, L, el, m + 1, mm)),
              EighthT2(el, m, mm, EighthEntry(dl, L, el, m + 2, mm)))

\* the entries (m, mm) compute_eighth assigns
EighthWrites(el) ==
    IF el = 0 THEN {<<0, 0>>}
    ELSE {w \in (0..el) \X (0..el) : w[1] >= w[2] \/ w[1] = el - 1}

\* the assignments of compute_eighth followed by one to the entry (el + 1, 0)
\* of the row of the next degree
ComputeEighthRowBeyond(dl, L, el) ==
    LET d == Assigned(dl, L, [w \in EighthWrites(el) |->
                        IF el = 0 THEN 1 ELSE EighthEntry(dl, L, el, w[1], w[2])])
    IN IF el + 1 < L
       THEN Assigned(d, L, [w \in {<<el + 1, 0>>} |-> DlAt(d, L, el, 0)])
       ELSE d

\* the body of compute_eighth after _arg_checks
ComputeEighthBody(dl, L, el) ==
    Assigned(dl, L, [w \in EighthWrites(el) |->
                        IF el = 0 THEN 1 ELSE EighthEntry(dl, L, el, w[1], w[2])])

\* the body of fill_eighth2quarter
FillEighth2QuarterBody(dl, L, el) ==
    Assigned(dl, L, [w \in {v \in (0..el) \X (0..el) : v[2] > v[1]} |->
                        RMul(RInt(SignPow(w[1] + w[2])), DlAt(dl, L, w[2], w[1]))])

\* the body of fill_quarter2half without the factor (-1) ** (el + mm)
FillQuarter2HalfUnsigned(dl, L, el) ==
    Assigned(dl, L, [w \in ((-el)..(-1)) \X (0..el) |-> DlAt(dl, L, -w[1], w[2])])

\* the body of fill_quarter2half
FillQuarter2HalfBody(dl, L, el) ==
    Assigned(dl, L, [w \in ((-el)..(-1)) \X (0..el) |->
                        RMul(RInt(SignPow(el + w[2])), DlAt(dl, L, -w[1], w[2]))])

\* the body of fill_half2full with the column m' = 0 written as well
FillHalf2FullFromZero(dl, L, el) ==
    Assigned(dl, L, [w \in ((-el)..el) \X ((-el)..0) |->
                        RMul(RInt(SignPow(el + Abs(w[1]))), DlAt(dl, L, w[1], -w[2]))])

\* the body of fill_half2full
FillHalf2FullBody(dl, L, el) ==
    Assigned(dl, L, [w \in ((-el)..el) \X ((-el)..(-1)) |->
                        RMul(RInt(SignPow(el + Abs(w[1]))), DlAt(dl, L, w[1], -w[2]))])

TrapaniFunctions ==
    {"compute_eighth", "fill_eighth2quarter", "fill_quarter2half", "fill_half2full",
     "compute_full"}

\* the body of compute_full after its own _arg_checks: the four functions in
\* turn, each of which checks its arguments again
ComputeFullBody(dl, L, el) ==
    FillHalf2FullBody(FillQuarter2HalfBody(FillEighth2QuarterBody(
        ComputeEighthBody(dl, L, el), L, el), L, el), L, el)

\* a call fn(dl, L, el): what it raises, the caller's plane after it, and the
\* number of warnings logged
TrapaniResult(fn, dl, L, el, chk) ==
    IF chk.err # "none" THEN [err |-> chk.err, dl |-> dl, warnings |-> 0]
    ELSE [err |-> "none",
          dl |-> CASE fn = "compute_eighth" -> ComputeEighthBody(dl, L, el)
                   [] fn = "fill_eighth2quarter" -> FillEighth2QuarterBody(dl, L, el)
                   [] fn = "fill_quarter2half" -> FillQuarter2HalfBody(dl, L, el)
                   [] fn = "fill_half2full" -> FillHalf2FullBody(dl, L, el)
                   [] OTHER -> ComputeFullBody(dl, L, el),
          warnings |-> IF fn = "compute_full" THEN 5 * chk.warnings ELSE chk.warnings]

TrapaniCall(fn, dl, L, el) == TrapaniResult(fn, dl, L, el, ArgChecks(dl, L, el))

\* ------------------------------------------------------------ the state
\* pc       where the running call stands ("idle" before it, "done" after it)
\* call     the arguments of the call
\* reality  the local variable reality of the kernel-based entry points
\* buf      the intermediate array of the call (resampled signal, ftm, flm)
\* out      what the call returned or raised
\* trace    the steps the call has gone through, in order
\* warned   whether warnings.warn was called
\* arg      the caller's array, as the caller sees it during and after the call
\* n        the loop variable of the Wigner transforms
\* subcalls the calls the Wigner transforms made to the spherical transform
\* dl       the plane a caller of trapani.py holds
\* tinfo    its band-limit L, the degree up to which compute_full has filled it
\*          in order (-1 not yet, -2 after any other write), its other calls
\* tlast    the last call of a Trapani function and the plane before it
VARIABLES pc, call, reality, buf, out, trace, warned, arg, n, subcalls,
          pm, bundle, slices, twin, dl, tinfo, tlast

\* the state of a caller of price_mcewen.py: the parameters pm of the bundle it
\* holds, the list bundle of its arrays, the slices returned so far, and twin,
\* the list generate_precomputes_jax returns for the same parameters
pmvars == <<pm, bundle, slices, twin>>

\* the state of a caller of trapani.py
trvars == <<dl, tinfo, tlast>>

vars == <<pc, call, reality, buf, out, trace, warned, arg, n, subcalls, pmvars, trvars>>

\* the variables of a call of a transform
tvars == <<pc, call, reality, buf, out, trace, warned, arg, n, subcalls>>

\* no plane has been allocated, no Trapani function called
NoPlane == NewPlane(0, 0, 0)
NoTrapaniCall ==
    [fn |-> "none", L |-> 0, el |-> 0, err |-> "none", warnings |-> 0, before |-> NoPlane]

\* no bundle has been built
NoBundle == [L |-> 0, spin |-> 0, sampling |-> "none", nside |-> 0, forward |-> FALSE]

NoCall ==
    [entry |-> "none", method |-> "none", L |-> 0, N |-> 0, spin |-> 0, sampling |-> "none",
     nside |-> 0, reality |-> FALSE, L0 |-> 0, kernel |-> "none", x |-> <<>>]

Init ==
    /\ pc = "idle"
    /\ call = NoCall
    /\ reality = FALSE
    /\ buf = <<>>
    /\ out = [err |-> "pending", val |-> <<>>]
    /\ trace = <<>>
    /\ warned = FALSE
    /\ arg = <<>>
    /\ n = 0
    /\ subcalls = <<>>
    /\ pm = NoBundle
    /\ bundle = <<>>
    /\ slices = <<>>
    /\ twin = <<>>
    /\ dl = NoPlane
    /\ tinfo = [L |-> 0, degree |-> -1, strays |-> 0]
    /\ tlast = NoTrapaniCall

\* ------------------------------------------ transform._inverse, step by step
\* a caller invokes transform._inverse (transform.inverse fixes the method)
CallInverse ==
    /\ pc = "idle"
    /\ \E L \in BandLimits, spin \in Spins, sampling \in Spellings, method \in Methods,
          L0 \in LowerBounds, shape \in {"exact", "wide"} :
          \E nside \in Nsides(sampling) :
             call' = [entry |-> "_inverse", method |-> method, L |-> L, N |-> 1,
                      spin |-> spin, sampling |-> sampling, nside |-> nside,
                      reality |-> FALSE, L0 |-> L0, kernel |-> "none",
                      x |-> FlmInput(L, shape, 1)]
    /\ pc' = "validate"
    /\ arg' = call'.x
    /\ UNCHANGED <<reality, buf, out, trace, warned, n, subcalls, pmvars, trvars>>

\* the assertions of _inverse without assert L0 < L
InverseArgsNoLowerBound(flm, L, spin, L0) ==
    /\ FlmShapeOK(flm, L)
    /\ 0 <= Abs(spin) /\ Abs(spin) < L

\* the three assertions of _inverse
InverseArgsOK(flm, L, spin, L0) ==
    /\ FlmShapeOK(flm, L)
    /\ 0 <= Abs(spin) /\ Abs(spin) < L
    /\ L0 < L

InverseValidate ==
    /\ pc = "validate" /\ call.entry = "_inverse"
    /\ trace' = Append(trace, "validate")
    /\ IF InverseArgsOK(call.x, call.L, call.spin, call.L0)
       THEN pc' = "dispatch" /\ out' = out
       ELSE pc' = "done" /\ out' = Raise("AssertionError")
    /\ UNCHANGED <<call, reality, buf, warned, arg, n, subcalls, pmvars, trvars>>

\* thetas = samples.thetas(...); transform_methods[method](...)
InverseDispatch ==
    /\ pc = "dispatch" /\ call.entry = "_inverse"
    /\ trace' = trace \o <<"thetas", "dispatch">>
    /\ pc' = "contract"
    /\ UNCHANGED <<call, reality, buf, out, warned, arg, n, subcalls, pmvars, trvars>>

\* the accumulation over rings and degrees of the selected method
InverseContract ==
    /\ pc = "contract" /\ call.entry = "_inverse"
    /\ LET c == call IN
       CASE c.method = "direct" ->
              /\ out' = Val(ComputeInverseDirect(c.x, c.L, c.spin, c.sampling, c.nside, c.L0))
              /\ pc' = "done" /\ buf' = buf
              /\ trace' = trace \o <<"contract", "return">>
         [] c.method = "sov" ->
              /\ buf' = InverseSovFtm(c.x, c.L, c.spin, c.sampling, c.nside, c.L0)
              /\ pc' = "fft" /\ out' = out
              /\ trace' = Append(trace, "contract")
         [] c.method = "sov_fft" /\ Lower(c.sampling) = "healpix" /\ c.L < 2 * c.nside ->
              /\ out' = Raise("AssertionError")
              /\ pc' = "done" /\ buf' = buf
              /\ trace' = trace
         [] c.method = "sov_fft" /\ ~(Lower(c.sampling) = "healpix" /\ c.L < 2 * c.nside) ->
              /\ buf' = InverseSovFftFtm(c.x, c.L, c.spin, c.sampling, c.nside, c.L0)
              /\ pc' = "fft" /\ out' = out
              /\ trace' = Append(trace, "contract")
         [] c.method = "sov_fft_vectorized" ->
              /\ buf' = InverseVecFtm(c.x, c.L, c.spin, c.sampling, c.nside, c.L0)
              /\ pc' = "fft" /\ out' = out
              /\ trace' = Append(trace, "contract")
    /\ UNCHANGED <<call, reality, warned, arg, n, subcalls, pmvars, trvars>>

\* the sum over orders (sov) or the inverse FFT (sov_fft, sov_fft_vectorized)
InverseFftStep ==
    /\ pc = "fft" /\ call.entry = "_inverse"
    /\ IF call.method = "sov"
       THEN /\ out' = Val(InverseSovSynth(buf, call.L, call.sampling, call.nside))
            /\ trace' = trace \o <<"dft", "return">>
       ELSE /\ out' = Val(InverseFft(buf, call.L, call.sampling, call.nside))
            /\ trace' = trace \o <<"fft", "return">>
    /\ pc' = "done"
    /\ UNCHANGED <<call, reality, buf, warned, arg, n, subcalls, pmvars, trvars>>

\* ------------------------------------------ transform._forward, step by step
\* a caller invokes transform._forward (transform.forward fixes the method)
CallForward ==
    /\ pc = "idle"
    /\ \E L \in BandLimits, spin \in Spins, sampling \in Samplings, method \in Methods,
          L0 \in LowerBounds, shape \in {"exact", "wide"} :
          \E nside \in Nsides(sampling) :
             call' = [entry |-> "_forward", method |-> method, L |-> L, N |-> 1,
                      spin |-> spin, sampling |-> sampling, nside |-> nside,
                      reality |-> FALSE, L0 |-> L0, kernel |-> "none",
                      x |-> SignalInput(L, sampling, nside, shape, 1)]
    /\ pc' = "validate"
    /\ arg' = call'.x
    /\ UNCHANGED <<reality, buf, out, trace, warned, n, subcalls, pmvars, trvars>>

\* the assertions of _forward with the spin bounded by L - 1 exclusively
ForwardArgsBelowBoundary(f, L, spin, sampling, nside, L0) ==
    /\ FShapeOK(f, L, sampling, nside)
    /\ 0 <= Abs(spin) /\ Abs(spin) < L - 1
    /\ L0 < L

\* the three assertions of _forward
ForwardArgsOK(f, L, spin, sampling, nside, L0) ==
    /\ FShapeOK(f, L, sampling, nside)
    /\ 0 <= Abs(spin) /\ Abs(spin) < L
    /\ L0 < L

ForwardValidate ==
    /\ pc = "validate" /\ call.entry = "_forward"
    /\ trace' = Append(trace, "validate")
    /\ IF ForwardArgsOK(call.x, call.L, call.spin, call.sampling, call.nside, call.L0)
       THEN pc' = "resample" /\ out' = out
       ELSE pc' = "done" /\ out' = Raise("AssertionError")
    /\ UNCHANGED <<call, reality, buf, warned, arg, n, subcalls, pmvars, trvars>>

\* mw_to_mwss and upsample_by_two_mwss for mw and mwss, then thetas and weights
ForwardResampleStep ==
    /\ pc = "resample" /\ call.entry = "_forward"
    /\ buf' = ForwardResample(call.x, call.L, call.spin, call.sampling)
    /\ trace' = trace \o (IF Lower(call.sampling) \in {"mw", "mwss"}
                          THEN <<"resample">> ELSE <<>>) \o <<"thetas", "weights">>
    /\ pc' = "dispatch"
    /\ UNCHANGED <<call, reality, out, warned, arg, n, subcalls, pmvars, trvars>>

\* a dispatch that enters the contraction at once, for every method
ForwardDispatchSkipsFft ==
    /\ pc = "dispatch" /\ call.entry = "_forward"
    /\ trace' = Append(trace, "dispatch")
    /\ pc' = "contract"
    /\ UNCHANGED <<call, reality, buf, out, warned, arg, n, subcalls, pmvars, trvars>>

\* transform_methods[method](...)
ForwardDispatch ==
    /\ pc = "dispatch" /\ call.entry = "_forward"
    /\ trace' = Append(trace, "dispatch")
    /\ pc' = IF call.method = "direct" THEN "contract" ELSE "fft"
    /\ UNCHANGED <<call, reality, buf, out, warned, arg, n, subcalls, pmvars, trvars>>

\* the sum over samples (sov) or the FFT (sov_fft, sov_fft_vectorized) per ring
ForwardFftStep ==
    /\ pc = "fft" /\ call.entry = "_forward"
    /\ LET smp == ForwardSampling(call.sampling)
           nrings == ForwardRings(call.L, call.sampling, call.nside)
       IN IF call.method = "sov"
          THEN /\ buf' = ForwardSovFtm(buf, call.L, smp, nrings, call.nside)
               /\ trace' = Append(trace, "dft")
          ELSE /\ buf' = ForwardFft(buf, call.L, smp, call.nside)
               /\ trace' = Append(trace, "fft")
    /\ pc' = "contract"
    /\ UNCHANGED <<call, reality, out, warned, arg, n, subcalls, pmvars, trvars>>

\* the accumulation over rings of the selected method
ForwardContract ==
    /\ pc = "contract" /\ call.entry = "_forward"
    /\ LET c == call
           smp == ForwardSampling(c.sampling)
           nrings == ForwardRings(c.L, c.sampling, c.nside)
       IN out' = Val(CASE c.method = "direct" ->
                            ComputeForwardDirect(buf, c.L, c.spin, smp, nrings, c.nside, c.L0)
                       [] c.method = "sov" ->
                            ForwardSovContract(buf, c.L, c.spin, nrings, c.L0)
                       [] c.method = "sov_fft" ->
                            ForwardSovFftContract(buf, c.L, c.spin, smp, nrings, c.nside, c.L0)
                       [] c.method = "sov_fft_vectorized" ->
                            ForwardVecContract(buf, c.L, c.spin, smp, nrings, c.nside, c.L0))
    /\ trace' = trace \o <<"contract", "return">>
    /\ pc' = "done"
    /\ UNCHANGED <<call, reality, buf, warned, arg, n, subcalls, pmvars, trvars>>

\* -------------------- precompute_transforms.spherical.inverse, step by step
CallSphericalInverse ==
    /\ pc = "idle"
    /\ \E L \in BandLimits, spin \in KernelSpins, sampling \in Samplings,
          method \in Backends, real \in BOOLEAN, shape \in InputShapes, seed \in Seeds :
          \E nside \in Nsides(sampling), kernel \in (IF real THEN {"full", "half"} ELSE {"full"}) :
             call' = [entry |-> "spherical.inverse", method |-> method, L |-> L, N |-> 1,
                      spin |-> spin, sampling |-> sampling, nside |-> nside,
                      reality |-> real, L0 |-> 0, kernel |-> kernel,
                      x |-> FlmInput(L, shape, seed)]
    /\ pc' = "dispatch"
    /\ arg' = call'.x
    /\ UNCHANGED <<reality, buf, out, trace, warned, n, subcalls, pmvars, trvars>>

\* the reality check with spin > 0 in place of spin != 0
RealityDowngradedPositive(real, spin) == real /\ spin > 0

\* if reality and spin != 0
RealityDowngraded(real, spin) == real /\ spin # 0

\* a dispatch that lets every method name through to a backend
SphericalMethodsAny == {"numpy", "jax", "torch", "cuda"}

\* the methods spherical.inverse and spherical.forward know
SphericalMethods == {"numpy", "jax", "torch"}

\* inverse, lines 55-68: the reality check, then the choice of the backend
SphericalInverseDispatch ==
    /\ pc = "dispatch" /\ call.entry = "spherical.inverse"
    /\ reality' = (call.reality /\ ~RealityDowngraded(call.reality, call.spin))
    /\ warned' = RealityDowngraded(call.reality, call.spin)
    /\ trace' = Append(trace, "dispatch")
    /\ IF call.method \in SphericalMethods
       THEN pc' = "contract" /\ out' = out
       ELSE pc' = "done" /\ out' = Raise("ValueError")
    /\ UNCHANGED <<call, buf, arg, n, subcalls, pmvars, trvars>>

SphericalInverseContract ==
    /\ pc = "contract" /\ call.entry = "spherical.inverse"
    /\ LET r == InverseTransformContract(call.x, KernelOf(call, FALSE), call.L,
                                         call.sampling, reality, call.spin, call.nside)
       IN IF r.err # "none"
          THEN pc' = "done" /\ out' = r /\ buf' = buf
          ELSE /\ buf' = r.val /\ out' = out
               /\ pc' = IF InverseRebuilds(call.method, call.sampling, reality)
                        THEN "reality" ELSE "fft"
    /\ trace' = Append(trace, "contract")
    /\ UNCHANGED <<call, reality, warned, arg, n, subcalls, pmvars, trvars>>

SphericalInverseReality ==
    /\ pc = "reality" /\ call.entry = "spherical.inverse"
    /\ LET r == InverseTransformReality(buf, call.L, call.sampling)
       IN IF r.err # "none"
          THEN pc' = "done" /\ out' = r /\ buf' = buf
          ELSE pc' = "fft" /\ out' = out /\ buf' = r.val
    /\ trace' = Append(trace, "reality")
    /\ UNCHANGED <<call, reality, warned, arg, n, subcalls, pmvars, trvars>>

SphericalInverseFft ==
    /\ pc = "fft" /\ call.entry = "spherical.inverse"
    /\ out' = Val(InverseTransformFft(call.method, buf, call.L, call.sampling,
                                      reality, call.nside))
    /\ trace' = trace \o <<"fft", "return">>
    /\ pc' = "done"
    /\ UNCHANGED <<call, reality, buf, warned, arg, n, subcalls, pmvars, trvars>>

\* -------------------- precompute_transforms.spherical.forward, step by step
CallSphericalForward ==
    /\ pc = "idle"
    /\ \E L \in BandLimits, spin \in KernelSpins, sampling \in Samplings,
          method \in Backends, real \in BOOLEAN, shape \in InputShapes, seed \in Seeds :
          \E nside \in Nsides(sampling), kernel \in (IF real THEN {"full", "half"} ELSE {"full"}) :
             call' = [entry |-> "spherical.forward", method |-> method, L |-> L, N |-> 1,
                      spin |-> spin, sampling |-> sampling, nside |-> nside,
                      reality |-> real, L0 |-> 0, kernel |-> kernel,
                      x |-> SignalInput(L, sampling, nside, shape, seed)]
    /\ pc' = "dispatch"
    /\ arg' = call'.x
    /\ UNCHANGED <<reality, buf, out, trace, warned, n, subcalls, pmvars, trvars>>

\* forward, lines 300-313: the reality check, then the choice of the backend
SphericalForwardDispatch ==
    /\ pc = "dispatch" /\ call.entry = "spherical.forward"
    /\ reality' = (call.reality /\ ~RealityDowngraded(call.reality, call.spin))
    /\ warned' = RealityDowngraded(call.reality, call.spin)
    /\ trace' = Append(trace, "dispatch")
    /\ IF call.method \in SphericalMethods
       THEN pc' = "resample" /\ out' = out
       ELSE pc' = "done" /\ out' = Raise("ValueError")
    /\ UNCHANGED <<call, buf, arg, n, subcalls, pmvars, trvars>>

SphericalForwardResample ==
    /\ pc = "resample" /\ call.entry = "spherical.forward"
    /\ buf' = ForwardResample(call.x, call.L, call.spin, call.sampling)
    /\ trace' = trace \o (IF Lower(call.sampling) \in {"mw", "mwss"}
                          THEN <<"resample">> ELSE <<>>)
    /\ pc' = "fft"
    /\ UNCHANGED <<call, reality, out, warned, arg, n, subcalls, pmvars, trvars>>

SphericalForwardFft ==
    /\ pc = "fft" /\ call.entry = "spherical.forward"
    /\ buf' = ForwardTransformFft(buf, call.L, ForwardSampling(call.sampling),
                                  reality, call.nside)
    /\ trace' = Append(trace, "fft")
    /\ pc' = "contract"
    /\ UNCHANGED <<call, reality, out, warned, arg, n, subcalls, pmvars, trvars>>

SphericalForwardContract ==
    /\ pc = "contract" /\ call.entry = "spherical.forward"
    /\ LET r == ForwardTransformContract(buf, KernelOf(call, TRUE), call.L, reality)
       IN IF r.err # "none"
          THEN pc' = "done" /\ out' = r /\ buf' = buf
          ELSE /\ buf' = r.val /\ out' = out
               /\ pc' = IF reality THEN "reality" ELSE "return"
    /\ trace' = Append(trace, "contract")
    /\ UNCHANGED <<call, reality, warned, arg, n, subcalls, pmvars, trvars>>

SphericalForwardReality ==
    /\ pc = "reality" /\ call.entry = "spherical.forward"
    /\ buf' = ForwardTransformReality(buf, call.L)
    /\ trace' = Append(trace, "reality")
    /\ pc' = "return"
    /\ UNCHANGED <<call, reality, out, warned, arg, n, subcalls, pmvars, trvars>>

SphericalForwardReturn ==
    /\ pc = "return" /\ call.entry = "spherical.forward"
    /\ out' = Val(ForwardTransformReturn(buf, call.spin))
    /\ trace' = Append(trace, "return")
    /\ pc' = "done"
    /\ UNCHANGED <<call, reality, buf, warned, arg, n, subcalls, pmvars, trvars>>

\* ------------------------------------------------ jax_transforms/wigner.py
MaxN == 2          \* azimuthal band-limits 1..MaxN

\* the methods wigner.inverse and wigner.forward know
WignerMethods == {"numpy", "jax"}

\* np.sqrt((2 * el + 1) / (16 * np.pi**3)): one nonzero real per degree
InverseWignerFactor(el) == Real(2 * el + 3)

\* np.sqrt(4 * np.pi / (2 * el + 1)): one nonzero real per degree
ForwardWignerFactor(el) == Real(el + 2)

\* 2 * np.pi / (2 * N - 1)
GammaWeight(N) == Real(2 * N + 1)

\* flmn[:, L_lower:] = einsum("nlm,l->nlm", flmn[:, L_lower:], factor)
ScaleDegrees(flmn, L_lower, factor(_)) ==
    [k \in DOMAIN flmn |-> [el \in DOMAIN flmn[k] |-> [j \in DOMAIN flmn[k][el] |->
        IF el >= L_lower THEN CMul(factor(el), flmn[k][el][j]) ELSE flmn[k][el][j]]]]

\* spin_spherical.inverse_numpy / inverse_jax: the inverse spin-spherical
\* transform of one plane flmn[N - 1 + n]
SpinSphericalInverse(flm, L, spin, nside, sampling, real, L_lower) ==
    LET f == ComputeInverseSovFftVectorized(flm, L, spin, sampling, nside, L_lower)
    IN IF real THEN [t \in DOMAIN f |-> [p \in DOMAIN f[t] |-> CRealPart(f[t][p])]] ELSE f

\* spin_spherical.forward_numpy / forward_jax: the forward spin-spherical
\* transform of one plane fban[n - n_start_ind]
SpinSphericalForward(f, L, spin, nside, sampling, real, L_lower) ==
    ComputeForwardSovFftVectorized(ForwardResample(f, L, spin, sampling), L, spin,
                                   ForwardSampling(sampling),
                                   ForwardRings(L, sampling, nside), nside, L_lower)

\* a transform F of the rows along the first axis, len planes long
AlongN(a, len, F(_)) ==
    [k \in 0..(len - 1) |-> [t \in DOMAIN a[0] |-> [p \in DOMAIN a[0][t] |->
        F([i \in DOMAIN a |-> a[i][t][p]])[k]]]]

\* a[from:] along the first axis
SlicePlanes(a, from) == [k \in 0..(NRows(a) - from - 1) |-> a[k + from]]

\* one plane scaled by an integer
ScalePlane(k, a) == [t \in DOMAIN a |-> [p \in DOMAIN a[t] |-> CScale(k, a[t][p])]]

\* n_start_ind = 0 if reality else -N + 1
NStartInd(N, real) == IF real THEN 0 ELSE 1 - N

\* the reality flag a Wigner transform hands to the spherical transform
SubReality(real, k) == IF k = 0 THEN real ELSE FALSE

\* np.zeros(samples.f_shape(L, N, sampling, nside))
ZerosF(L, N, sampling, nside) ==
    [k \in 0..(2 * N - 2) |-> [t \in 0..(NTheta(L, sampling, nside) - 1) |->
        [p \in 0..(NPhi(L, sampling, nside, t) - 1) |-> CZero]]]

\* np.zeros(samples.flmn_shape(L, N))
ZerosFlmn(L, N) == [k \in 0..(2 * N - 2) |-> Zeros2(L, 2 * L - 1)]

\* inverse_numpy, lines 165-171; inverse_jax, lines 269-273
WignerInverseFft(backend, fban, N, real) ==
    IF backend = "numpy" /\ real
    THEN AlongN(SlicePlanes(fban, N - 1), 2 * N - 1, LAMBDA row : IrfftRow(row, 2 * N - 1))
    ELSE LET g == IF real
                  THEN [k \in DOMAIN fban |->
                          IF k < N - 1
                          THEN [t \in DOMAIN fban[k] |-> [p \in DOMAIN fban[k][t] |->
                                  CConj(fban[2 * N - 2 - k][t][p])]]
                          ELSE fban[k]]
                  ELSE fban
         IN AlongN(g, NRows(g), LAMBDA row : IfftRow(IfftShiftRow(row)))

\* forward_numpy, lines 413-419: the FFT over the third Euler angle
WignerForwardFft(f, N, real) ==
    LET len == NRows(f)
        fban == IF real
                THEN AlongN(f, (len \div 2) + 1, LAMBDA row : RfftRow(row))
                ELSE AlongN(f, len, LAMBDA row : FftShiftRow(FftRow(row)))
    IN [k \in DOMAIN fban |-> [t \in DOMAIN fban[k] |-> [p \in DOMAIN fban[k][t] |->
          CMul(GammaWeight(N), fban[k][t][p])]]]

\* conj(flip(plane, axis=-1)): the mirror plane without sgn * (-1) ** n
MirrorPlaneUnsigned(plane, L, k) ==
    [el \in DOMAIN plane |-> [j \in DOMAIN plane[el] |->
        CConj(plane[el][(2 * L - 2) - j])]]

\* conj(flip(plane * sgn * (-1) ** n, axis=-1)), sgn = (-1) ** abs(arange(-L+1, L))
MirrorPlane(plane, L, k) ==
    [el \in DOMAIN plane |-> [j \in DOMAIN plane[el] |->
        LET src == (2 * L - 2) - j
        IN CConj(CScale(SignPow(Abs(src - (L - 1))) * SignPow(k), plane[el][src]))]]

\* the arrays a caller hands to the Wigner transforms: the shape
\* flmn_shape(L, N) or f_shape(L, N, sampling, nside), or one plane too many
FlmnInput(L, N, shape, seed) ==
    [k \in 0..(2 * N - 2 + (IF shape = "extra" THEN 1 ELSE 0)) |->
        FlmInput(L, "exact", seed + k)]

WignerSignalInput(L, N, sampling, nside, shape, seed) ==
    [k \in 0..(2 * N - 2 + (IF shape = "extra" THEN 1 ELSE 0)) |->
        SignalInput(L, sampling, nside, "exact", seed + k)]

\* ----------------------------------- wigner.inverse, step by step
CallWignerInverse ==
    /\ pc = "idle"
    /\ \E L \in BandLimits, N \in 1..MaxN, sampling \in Samplings, L0 \in LowerBounds,
          method \in WignerMethods \cup {"torch"}, real \in BOOLEAN,
          precomps \in {"none", "list"}, shape \in {"exact", "extra"} :
          \E nside \in Nsides(sampling) :
             /\ N <= L /\ L0 < L
             /\ call' = [entry |-> "wigner.inverse", method |-> method, L |-> L, N |-> N,
                         spin |-> 0, sampling |-> sampling, nside |-> nside,
                         reality |-> real, L0 |-> L0, kernel |-> "none",
                         precomps |-> precomps, x |-> FlmnInput(L, N, shape, 1)]
    /\ pc' = "dispatch"
    /\ arg' = call'.x
    /\ UNCHANGED <<reality, buf, out, trace, warned, n, subcalls, pmvars, trvars>>

\* inverse, lines 79-90
WignerInverseDispatch ==
    /\ pc = "dispatch" /\ call.entry = "wigner.inverse"
    /\ trace' = Append(trace, "dispatch")
    /\ IF call.method \in WignerMethods
       THEN pc' = "scale" /\ out' = out
       ELSE pc' = "done" /\ out' = Raise("ValueError")
    /\ UNCHANGED <<call, reality, buf, warned, arg, n, subcalls, pmvars, trvars>>

\* inverse_numpy, lines 144-152: flmn[:, L_lower:] = einsum(...) writes into the
\* caller's array; inverse_jax, lines 239-252: flmn.at[...].set(...) is a copy
WignerInverseScale ==
    /\ pc = "scale" /\ call.entry = "wigner.inverse"
    /\ LET scaled == ScaleDegrees(arg, call.L0, InverseWignerFactor)
       IN /\ buf' = [flmn |-> scaled, fban |-> ZerosF(call.L, call.N, call.sampling, call.nside)]
          /\ arg' = IF call.method = "numpy" THEN scaled ELSE arg
    /\ n' = NStartInd(call.N, call.reality)
    /\ trace' = Append(trace, "scale")
    /\ pc' = "loop"
    /\ UNCHANGED <<call, reality, out, warned, subcalls, pmvars, trvars>>

\* one round of for n in range(n_start_ind, N)
WignerInverseLoop ==
    /\ pc = "loop" /\ call.entry = "wigner.inverse"
    /\ IF n >= call.N
       THEN pc' = "fft" /\ UNCHANGED <<buf, out, trace, n, subcalls>>
       ELSE IF call.precomps = "none"
       THEN pc' = "done" /\ out' = Raise("TypeError") /\ UNCHANGED <<buf, trace, n, subcalls>>
       ELSE LET sub == [n |-> n, spin |-> -n, reality |-> SubReality(call.reality, n),
                        precomp |-> n - NStartInd(call.N, call.reality)]
                f == SpinSphericalInverse(buf.flmn[call.N - 1 + n], call.L, sub.spin,
                                          call.nside, call.sampling, sub.reality, call.L0)
            IN /\ subcalls' = Append(subcalls, sub)
               /\ buf' = [buf EXCEPT !.fban[call.N - 1 + n] = ScalePlane(SignPow(n), f)]
               /\ n' = n + 1
               /\ trace' = Append(trace, "subcall")
               /\ pc' = "loop" /\ out' = out
    /\ UNCHANGED <<call, reality, warned, arg, pmvars, trvars>>

\* the inverse FFT over the order n and the return
WignerInverseFftStep ==
    /\ pc = "fft" /\ call.entry = "wigner.inverse"
    /\ out' = Val(WignerInverseFft(call.method, buf.fban, call.N, call.reality))
    /\ trace' = trace \o <<"fft", "return">>
    /\ pc' = "done"
    /\ UNCHANGED <<call, reality, buf, warned, arg, n, subcalls, pmvars, trvars>>

\* ----------------------------------- wigner.forward, step by step
CallWignerForward ==
    /\ pc = "idle"
    /\ \E L \in BandLimits, N \in 1..MaxN, sampling \in Samplings, L0 \in LowerBounds,
          method \in WignerMethods \cup {"torch"}, real \in BOOLEAN,
          precomps \in {"none", "list"}, shape \in {"exact", "extra"} :
          \E nside \in Nsides(sampling) :
             /\ N <= L /\ L0 < L
             /\ call' = [entry |-> "wigner.forward", method |-> method, L |-> L, N |-> N,
                         spin |-> 0, sampling |-> sampling, nside |-> nside,
                         reality |-> real, L0 |-> L0, kernel |-> "none",
                         precomps |-> precomps,
                         x |-> WignerSignalInput(L, N, sampling, nside, shape, 1)]
    /\ pc' = "dispatch"
    /\ arg' = call'.x
    /\ UNCHANGED <<reality, buf, out, trace, warned, n, subcalls, pmvars, trvars>>

\* forward, lines 344-355
WignerForwardDispatch ==
    /\ pc = "dispatch" /\ call.entry = "wigner.forward"
    /\ trace' = Append(trace, "dispatch")
    /\ IF call.method \in WignerMethods
       THEN pc' = "fft" /\ out' = out
       ELSE pc' = "done" /\ out' = Raise("ValueError")
    /\ UNCHANGED <<call, reality, buf, warned, arg, n, subcalls, pmvars, trvars>>

\* forward_numpy, lines 411-424
WignerForwardFftStep ==
    /\ pc = "fft" /\ call.entry = "wigner.forward"
    /\ buf' = [flmn |-> ZerosFlmn(call.L, call.N),
               fban |-> WignerForwardFft(arg, call.N, call.reality),
               written |-> <<>>]
    /\ n' = NStartInd(call.N, call.reality)
    /\ trace' = Append(trace, "fft")
    /\ pc' = "loop"
    /\ UNCHANGED <<call, reality, out, warned, arg, subcalls, pmvars, trvars>>

\* one round of for n in range(n_start_ind, N)
WignerForwardLoop ==
    /\ pc = "loop" /\ call.entry = "wigner.forward"
    /\ IF n >= call.N
       THEN pc' = "scale" /\ UNCHANGED <<buf, out, trace, n, subcalls>>
       ELSE IF call.precomps = "none"
       THEN pc' = "done" /\ out' = Raise("TypeError") /\ UNCHANGED <<buf, trace, n, subcalls>>
       ELSE LET sub == [n |-> n, spin |-> -n, reality |-> SubReality(call.reality, n),
                        precomp |-> n - NStartInd(call.N, call.reality)]
                flm == ScaleAll(SignPow(n),
                                SpinSphericalForward(buf.fban[sub.precomp], call.L, sub.spin,
                                                     call.nside, call.sampling, sub.reality,
                                                     call.L0))
            IN /\ subcalls' = Append(subcalls, sub)
               /\ buf' = IF call.reality /\ n # 0
                         THEN [buf EXCEPT !.flmn[call.N - 1 + n] = flm,
                                          !.flmn[call.N - 1 - n] = MirrorPlane(flm, call.L, n),
                                          !.written = buf.written
                                                      \o <<call.N - 1 + n, call.N - 1 - n>>]
                         ELSE [buf EXCEPT !.flmn[call.N - 1 + n] = flm,
                                          !.written = Append(buf.written, call.N - 1 + n)]
               /\ n' = n + 1
               /\ trace' = Append(trace, "subcall")
               /\ pc' = "loop" /\ out' = out
    /\ UNCHANGED <<call, reality, warned, arg, pmvars, trvars>>

\* forward_numpy, lines 440-445: the scaling per degree and the return
WignerForwardScale ==
    /\ pc = "scale" /\ call.entry = "wigner.forward"
    /\ out' = Val(ScaleDegrees(buf.flmn, call.L0, ForwardWignerFactor))
    /\ trace' = trace \o <<"scale", "return">>
    /\ pc' = "done"
    /\ UNCHANGED <<call, reality, buf, warned, arg, n, subcalls, pmvars, trvars>>

\* ------------------------------------------------- callers of price_mcewen.py
PMSamplings == {"mw", "mwss", "dh", "healpix"}

\* bundle = generate_precomputes(L, spin, sampling, nside, forward)
CallGeneratePrecomputes ==
    /\ pm = NoBundle
    /\ \E L \in 1..MaxPML, spin \in (-MaxPML)..MaxPML, sampling \in PMSamplings,
          forward \in BOOLEAN :
         \E nside \in Nsides(sampling) :
            /\ Abs(spin) < L
            /\ pm' = [L |-> L, spin |-> spin, sampling |-> sampling, nside |-> nside,
                      forward |-> forward]
            /\ bundle' = GeneratePrecomputes(L, spin, sampling, nside, forward)
    /\ slices' = <<>>
    /\ twin' = <<>>
    /\ UNCHANGED <<tvars, trvars>>

\* twin = generate_precomputes_jax(L, spin, sampling, nside, forward) for the
\* parameters of the bundle
CallGeneratePrecomputesJax ==
    /\ pm # NoBundle /\ twin = <<>>
    /\ twin' = GeneratePrecomputesJax(pm.L, pm.spin, pm.sampling, pm.nside, pm.forward)
    /\ UNCHANGED <<pm, bundle, slices, tvars, trvars>>

\* len(beta) of the angles the bundle pm was built for
BundleRings == PrecomputeRings(pm.L, pm.sampling, pm.nside, pm.forward)

\* what a call for the angles, L and spin of the bundle returns and leaves in
\* the caller's list, with the bundle (given) or without
SlicesCall(backend, given) ==
    IF given
    THEN ComputeAllSlices(backend, BundleRings, pm.L, pm.spin, bundle)
    ELSE [ret |-> ComputeAllSlicesDefault(backend, BundleRings, pm.L, pm.spin),
          written |-> {},
          precomps |-> bundle]

\* the caller after the call: what it got back, and its list of arrays
SlicesReturn(backend, given, r) ==
    /\ slices' = Append(slices, [backend |-> backend, given |-> given, ret |-> r.ret,
                                written |-> r.written])
    /\ bundle' = r.precomps

\* compute_all_slices(beta, L, spin, precomps)
CallComputeAllSlices ==
    /\ pm # NoBundle
    /\ Len(slices) < MaxCalls
    /\ \E given \in BOOLEAN : SlicesReturn("numpy", given, SlicesCall("numpy", given))
    /\ UNCHANGED <<pm, twin, tvars, trvars>>

\* compute_all_slices_jax(beta, L, spin, precomps)
CallComputeAllSlicesJax ==
    /\ pm # NoBundle
    /\ Len(slices) < MaxCalls
    /\ \E given \in BOOLEAN : SlicesReturn("jax", given, SlicesCall("jax", given))
    /\ UNCHANGED <<pm, twin, tvars, trvars>>

\* ------------------------------------------------------ callers of trapani.py
\* the band-limits of the planes: small ones, and the two around StableLimit
TrapaniBandLimits == (1..MaxTL) \cup {StableLimit, StableLimit + 1}

\* the degrees a caller passes: the small ones, one below 0, and L itself
TrapaniDegrees(L) == ((-1)..Min(L, MaxTL)) \cup {L}

\* dl = np.zeros((2 * L - 1, 2 * L - 1)), or a plane with other contents, or
\* one row and one column too many
TrapaniAllocate ==
    /\ tinfo.L = 0
    /\ \E L \in TrapaniBandLimits, more \in 0..1, seed \in Seeds :
         /\ dl' = NewPlane(2 * L - 1 + more, 2 * L - 1 + more, seed)
         /\ tinfo' = [L |-> L, degree |-> -1, strays |-> 0]
    /\ tlast' = NoTrapaniCall
    /\ UNCHANGED <<tvars, pmvars>>

\* compute_full for the degree after the last one filled in order
NextDegree(fn, el) == fn = "compute_full" /\ tinfo.degree >= -1 /\ el = tinfo.degree + 1

\* a caller may make the call fn(dl, L, el)
TrapaniMayCall(fn, el) ==
    /\ tinfo.L > 0
    /\ NextDegree(fn, el) \/ tinfo.strays < MaxStray

\* the caller after the call fn(dl, L, el) with outcome r
TrapaniReturn(fn, el, r) ==
    /\ dl' = r.dl
    /\ tlast' = [fn |-> fn, L |-> tinfo.L, el |-> el, err |-> r.err, warnings |-> r.warnings,
                 before |-> dl]
    /\ tinfo' = [tinfo EXCEPT
                !.strays = IF NextDegree(fn, el) THEN @ ELSE @ + 1,
                !.degree = IF r.err # "none" THEN @
                           ELSE IF NextDegree(fn, el) THEN el ELSE -2]

CallComputeEighth ==
    /\ \E el \in TrapaniDegrees(tinfo.L) :
         /\ TrapaniMayCall("compute_eighth", el)
         /\ TrapaniReturn("compute_eighth", el, TrapaniCall("compute_eighth", dl, tinfo.L, el))
    /\ UNCHANGED <<tvars, pmvars>>

CallFillEighth2Quarter ==
    /\ \E el \in TrapaniDegrees(tinfo.L) :
         /\ TrapaniMayCall("fill_eighth2quarter", el)
         /\ TrapaniReturn("fill_eighth2quarter", el,
                          TrapaniCall("fill_eighth2quarter", dl, tinfo.L, el))
    /\ UNCHANGED <<tvars, pmvars>>

CallFillQuarter2Half ==
    /\ \E el \in TrapaniDegrees(tinfo.L) :
         /\ TrapaniMayCall("fill_quarter2half", el)
         /\ TrapaniReturn("fill_quarter2half", el,
                          TrapaniCall("fill_quarter2half", dl, tinfo.L, el))
    /\ UNCHANGED <<tvars, pmvars>>

CallFillHalf2Full ==
    /\ \E el \in TrapaniDegrees(tinfo.L) :
         /\ TrapaniMayCall("fill_half2full", el)
         /\ TrapaniReturn("fill_half2full", el, TrapaniCall("fill_half2full", dl, tinfo.L, el))
    /\ UNCHANGED <<tvars, pmvars>>

CallComputeFull ==
    /\ \E el \in TrapaniDegrees(tinfo.L) :
         /\ TrapaniMayCall("compute_full", el)
         /\ TrapaniReturn("compute_full", el, TrapaniCall("compute_full", dl, tinfo.L, el))
    /\ UNCHANGED <<tvars, pmvars>>

\* ------------------------------------------------------ the specification
NextTrapani ==
    \/ TrapaniAllocate
    \/ CallComputeEighth
    \/ CallFillEighth2Quarter
    \/ CallFillQuarter2Half
    \/ CallFillHalf2Full
    \/ CallComputeFull

NextPM ==
    \/ CallGeneratePrecomputes
    \/ CallGeneratePrecomputesJax
    \/ CallComputeAllSlices
    \/ CallComputeAllSlicesJax

Next ==
    \/ CallInverse
    \/ InverseValidate
    \/ InverseDispatch
    \/ InverseContract
    \/ InverseFftStep
    \/ CallForward
    \/ ForwardValidate
    \/ ForwardResampleStep
    \/ ForwardDispatch
    \/ ForwardFftStep
    \/ ForwardContract
    \/ CallSphericalInverse
    \/ SphericalInverseDispatch
    \/ SphericalInverseContract
    \/ SphericalInverseReality
    \/ SphericalInverseFft
    \/ CallSphericalForward
    \/ SphericalForwardDispatch
    \/ SphericalForwardResample
    \/ SphericalForwardFft
    \/ SphericalForwardContract
    \/ SphericalForwardReality
    \/ SphericalForwardReturn
    \/ CallWignerInverse
    \/ WignerInverseDispatch
    \/ WignerInverseScale
    \/ WignerInverseLoop
    \/ WignerInverseFftStep
    \/ CallWignerForward
    \/ WignerForwardDispatch
    \/ WignerForwardFftStep
    \/ WignerForwardLoop
    \/ WignerForwardScale

Spec == Init /\ [][Next]_vars

\* the callers of price_mcewen.py alone
SpecPM == Init /\ [][NextPM]_vars

\* the callers of trapani.py alone
SpecTrapani == Init /\ [][NextTrapani]_vars

\* ================================================================ claims
OnTheFlyEntries == {"_inverse", "_forward"}
KernelEntries == {"spherical.inverse", "spherical.forward"}
WignerEntries == {"wigner.inverse", "wigner.forward"}
ForwardEntries == {"_forward", "spherical.forward"}
InverseEntries == {"_inverse", "spherical.inverse"}

Returned == pc = "done" /\ out.err = "none"

\* every row of a has cols entries and a has rows rows
HasShape(a, rows, cols) ==
    /\ DOMAIN a = 0..(rows - 1)
    /\ \A r \in DOMAIN a : DOMAIN a[r] = 0..(cols - 1)

\* C2: whatever a forward transform returns (each of the four on-the-fly
\* methods, the kernel-based transform, with the reality flag or without) has
\* shape [L, 2L-1] and is zero at every (l, m) with |m| > l.
C2_ForwardShapeAndBand ==
    (Returned /\ call.entry \in ForwardEntries) =>
        /\ HasShape(out.val, call.L, 2 * call.L - 1)
        /\ \A el \in 0..(call.L - 1), j \in 0..(2 * call.L - 2) :
              Abs(j - (call.L - 1)) > el => out.val[el][j] = CZero

\* C2 witness: a kernel-based forward transform under the reality flag with
\* L >= 2 has returned an array with a nonzero entry inside the band
C2_Witness ==
    /\ Returned /\ call.entry = "spherical.forward" /\ reality /\ call.L >= 2
    /\ out.val[1][call.L - 2] # CZero
    /\ out.val[0][call.L - 2] = CZero

\* C3: with the kernel built by spin_spherical_kernel(forward=False), a scheme
\* of {"mw", "mwss", "dh", "healpix"} and a coefficient array of the right
\* shape, the kernel-based inverse transform
\* holds after its contraction the same ftm as _compute_inverse_sov_fft_vectorized
\* builds for the same (L, spin, sampling, nside) (for every lower bound
\* L0 <= |spin|, the default L0 = 0 among them), and returns the same signal.
C3_KernelEquivalence ==
    (/\ call.entry = "spherical.inverse" /\ ~call.reality /\ call.kernel = "full"
     /\ call.method \in {"numpy", "jax", "torch"}
     /\ call.sampling \in {"mw", "mwss", "dh", "healpix"}
     /\ FlmShapeOK(call.x, call.L) /\ Abs(call.spin) < call.L) =>
        /\ pc = "fft" =>
              \A L0 \in 0..Abs(call.spin) :
                  buf = InverseVecFtm(call.x, call.L, call.spin, call.sampling, call.nside, L0)
        /\ pc = "done" =>
              out = Val(ComputeInverseSovFftVectorized(call.x, call.L, call.spin,
                                                       call.sampling, call.nside, 0))

\* C3 witness: a kernel-based HEALPix inverse transform of spin 1 stands between
\* its contraction and its FFT with nonzero Fourier coefficients
C3_Witness ==
    /\ pc = "fft" /\ call.entry = "spherical.inverse" /\ ~call.reality
    /\ call.sampling = "healpix" /\ call.spin = 1 /\ call.L = 2
    /\ FlmShapeOK(call.x, call.L)
    /\ \E t \in DOMAIN buf : buf[t][3] # CZero

StageRank(stage, fftFirst, realityFirst) ==
    CASE stage = "validate" -> 1
      [] stage = "resample" -> 2
      [] stage = "contract" -> IF fftFirst THEN 4 ELSE 3
      [] stage \in {"fft", "dft"} -> IF fftFirst THEN 3 ELSE IF realityFirst THEN 5 ELSE 4
      [] stage = "reality" -> IF realityFirst /\ ~fftFirst THEN 4 ELSE 5
      [] stage = "return" -> 6
      [] OTHER -> 0

\* the named steps of tr occur in strictly increasing rank
InOrder(tr, fftFirst, realityFirst) ==
    \A i, j \in DOMAIN tr :
        (i < j /\ StageRank(tr[i], fftFirst, realityFirst) # 0
               /\ StageRank(tr[j], fftFirst, realityFirst) # 0) =>
            StageRank(tr[i], fftFirst, realityFirst) < StageRank(tr[j], fftFirst, realityFirst)

Has(tr, stage) == \E i \in DOMAIN tr : tr[i] = stage

\* C5 as stated: every call goes validation, resampling, contraction, FFT,
\* reality reconstruction, output.
C5_OrderAsStated ==
    call.entry \in ForwardEntries \cup InverseEntries => InOrder(trace, FALSE, FALSE)

\* C5, amended: a forward call goes validation (on-the-fly only), resampling
\* (mw and mwss only), azimuthal FFT, contraction, reality reconstruction,
\* output; an inverse call goes validation (on-the-fly only), contraction,
\* reality reconstruction, inverse FFT, output. A call that returns has
\* contracted, has run its Fourier step unless the method is "direct", and an
\* on-the-fly call has validated first.
C5_StageOrder ==
    /\ call.entry \in ForwardEntries => InOrder(trace, TRUE, FALSE)
    /\ call.entry \in InverseEntries => InOrder(trace, FALSE, TRUE)
    /\ (Returned /\ call.entry \in ForwardEntries \cup InverseEntries) =>
          /\ Has(trace, "contract")
          /\ trace[Len(trace)] = "return"
          /\ call.method # "direct" => (Has(trace, "fft") \/ Has(trace, "dft"))
          /\ call.entry \in OnTheFlyEntries => trace[1] = "validate"

\* C5 witness: an on-the-fly forward call on the mw scheme has returned after
\* validation, resampling, FFT and contraction, in that order
C5_Witness ==
    /\ Returned /\ call.entry = "_forward" /\ call.method = "sov_fft_vectorized"
    /\ trace = <<"validate", "resample", "thetas", "weights", "dispatch",
                 "fft", "contract", "return">>

\* C6: a call to transform._inverse or transform._forward with |spin| >= L,
\* with L0 >= L or with an array of the wrong shape ends in the validation
\* step with an AssertionError: nothing else has run and nothing is returned.
C6_FailFast ==
    LET c == call
        badShape == IF c.entry = "_inverse" THEN ~FlmShapeOK(c.x, c.L)
                    ELSE ~FShapeOK(c.x, c.L, c.sampling, c.nside)
    IN (c.entry \in OnTheFlyEntries /\ pc # "validate"
         /\ (Abs(c.spin) >= c.L \/ c.L0 >= c.L \/ badShape)) =>
           /\ pc = "done"
           /\ out = Raise("AssertionError")
           /\ trace = <<"validate">>

\* C6 witness: an inverse call whose only fault is L0 >= L has been rejected
C6_Witness ==
    /\ pc = "done" /\ call.entry = "_inverse" /\ call.L0 >= call.L
    /\ Abs(call.spin) < call.L /\ FlmShapeOK(call.x, call.L)
    /\ out = Raise("AssertionError")

\* the caller's array has the shape (L[, N], sampling, nside) determine
InputShapeOK ==
    LET c == call
    IN CASE c.entry \in {"_inverse", "spherical.inverse"} -> FlmShapeOK(c.x, c.L)
         [] c.entry \in {"_forward", "spherical.forward"} ->
                FShapeOK(c.x, c.L, c.sampling, c.nside)
         [] c.entry = "wigner.inverse" ->
                NRows(c.x) = 2 * c.N - 1 /\ \A k \in DOMAIN c.x : FlmShapeOK(c.x[k], c.L)
         [] c.entry = "wigner.forward" ->
                /\ NRows(c.x) = 2 * c.N - 1
                /\ \A k \in DOMAIN c.x : FShapeOK(c.x[k], c.L, c.sampling, c.nside)
         [] OTHER -> TRUE

\* C7 as stated: a kernel-based or Wigner call on an array of the wrong shape
\* ends with an error, and no contraction, FFT or spherical transform has run.
C7_ShapeRejected ==
    (pc = "done" /\ call.entry \in KernelEntries \cup WignerEntries /\ ~InputShapeOK) =>
        /\ out.err # "none"
        /\ ~Has(trace, "contract") /\ ~Has(trace, "fft") /\ ~Has(trace, "subcall")

\* C8: an unknown method name ends the kernel-based entry points (methods other
\* than numpy, jax, torch) and the Wigner entry points (other than numpy, jax)
\* with a ValueError straight after the dispatch: no step of a backend has run,
\* no spherical transform was called and nothing is returned.
C8_UnknownMethod ==
    LET unknown == \/ call.entry \in KernelEntries /\ call.method \notin {"numpy", "jax", "torch"}
                   \/ call.entry \in WignerEntries /\ call.method \notin {"numpy", "jax"}
    IN (unknown /\ pc # "dispatch") =>
          /\ pc = "done"
          /\ out = Raise("ValueError")
          /\ trace = <<"dispatch">>
          /\ buf = <<>> /\ subcalls = <<>>

\* C8 witness: a kernel-based forward call with an unknown method has ended
\* with a ValueError
C8_Witness ==
    /\ pc = "done" /\ call.entry = "spherical.forward" /\ call.method = "cuda"
    /\ out = Raise("ValueError")

\* C9: past the dispatch of a kernel-based entry point, reality=True with
\* spin != 0 has warned and runs the backend with reality=False, and the call
\* ends as the same call with reality=False ends; otherwise nothing is warned
\* and the flag is the caller's. Every spherical transform a Wigner transform
\* calls gets the caller's reality flag for n = 0 and False for n != 0.
C9_RealityDowngrade ==
    LET c == call
        down == c.reality /\ c.spin # 0
    IN /\ (c.entry \in KernelEntries /\ pc # "dispatch") =>
             IF down THEN warned /\ ~reality ELSE ~warned /\ reality = c.reality
       /\ (pc = "done" /\ down /\ c.method \in {"numpy", "jax", "torch"}
             /\ c.entry = "spherical.inverse") =>
             out = InverseTransform(c.method, c.x, KernelOf(c, FALSE), c.L, c.sampling,
                                    FALSE, c.spin, c.nside)
       /\ (pc = "done" /\ down /\ c.method \in {"numpy", "jax", "torch"}
             /\ c.entry = "spherical.forward") =>
             out = ForwardTransform(c.x, KernelOf(c, TRUE), c.L, c.sampling,
                                    FALSE, c.spin, c.nside)
       /\ c.entry \in WignerEntries =>
             \A i \in DOMAIN subcalls :
                 subcalls[i].reality = (c.reality /\ subcalls[i].n = 0)

\* C9 witness: a kernel-based inverse call with reality=True and spin -1 has
\* warned and returned a signal
C9_Witness ==
    /\ Returned /\ call.entry = "spherical.inverse" /\ call.reality /\ call.spin = -1
    /\ call.L = 2 /\ warned /\ ~reality

\* C10 (as stated): a bundle is read-only once built. After any number of
\* calls of compute_all_slices and compute_all_slices_jax the arrays of the
\* bundle are the arrays generate_precomputes built, and all calls that were
\* given the bundle have returned the same slice.
C10_BundleReadOnly ==
    pm # NoBundle =>
        /\ bundle = GeneratePrecomputes(pm.L, pm.spin, pm.sampling, pm.nside, pm.forward)
        /\ \A j, k \in 1..Len(slices) :
              slices[j].given /\ slices[k].given => slices[j].ret = slices[k].ret

\* C11 (as stated): the inverse Wigner transform leaves the caller's flmn as it
\* was handed in, at every point of a call with method numpy or jax, so that a
\* second call on the same array starts from the same coefficients.
C11_FlmnUnchanged ==
    call.entry = "wigner.inverse" /\ call.method \in WignerMethods => arg = call.x

\* Fourier slice n of a signal on the rotation group: the component of
\* frequency n along the third Euler angle, with the weight 2 pi / (2N - 1);
\* of the real part of the signal when real
FourierSlice(f, N, k, real) ==
    [t \in DOMAIN f[0] |-> [p \in DOMAIN f[0][t] |->
        CMul(GammaWeight(N),
             CSum([g \in 0..(2 * N - 2) |->
                      CMul(IF real THEN CRealPart(f[g][t][p]) ELSE f[g][t][p],
                           Root(2 * N - 1, -(k * g)))],
                  0, 2 * N - 2))]]

\* a forward Wigner transform of a signal with 2N-1 planes that has returned
WignerForwardReturned ==
    /\ call.entry = "wigner.forward" /\ Returned
    /\ NRows(arg) = 2 * call.N - 1

TrapaniCalled == tlast.fn \in TrapaniFunctions

\* the arguments of the last call pass both checks of _arg_checks
TrapaniArgsValid ==
    /\ 0 <= tlast.el /\ tlast.el < tlast.L
    /\ tlast.before.rows = 2 * tlast.L - 1 /\ tlast.before.cols = 2 * tlast.L - 1

\* C13: once compute_full has been applied to a plane for the degrees
\* 0, 1, ..., l in order, d[m, m'] = (-1)^(m - m') d[-m, -m'] for all
\* -l <= m, m' <= l.
C13_PlaneSymmetry ==
    tinfo.degree >= 0 =>
        \A m, mm \in (-tinfo.degree)..tinfo.degree :
            DlAt(dl, tinfo.L, m, mm)
                = RMul(RInt(SignPow(Abs(m - mm))), DlAt(dl, tinfo.L, -m, -mm))

\* C13 witness: a plane filled in order up to degree 2 that is not zero at
\* (m, m') = (1, 0), an entry whose mirror image carries the sign -1
C13_Witness ==
    /\ tinfo.degree = 2
    /\ DlAt(dl, tinfo.L, 2, 1) # 0
    /\ DlAt(dl, tinfo.L, -2, -1) # DlAt(dl, tinfo.L, 2, 1)

\* C14: a call of a Trapani function raises exactly when el is outside 0..L-1
\* or the plane is not (2L-1) x (2L-1), and then the plane handed in is as it
\* was before the call.
C14_ArgChecksFirst ==
    TrapaniCalled =>
        /\ (tlast.err # "none") <=> ~TrapaniArgsValid
        /\ tlast.err # "none" => dl = tlast.before

\* C14 witness: a call on a plane with contents and one row and column too
\* many has raised, and so has a call with el = L on a plane already filled
C14_Witness ==
    /\ TrapaniCalled /\ tlast.err = "AssertionError"
    /\ \/ tlast.before.rows = 2 * tlast.L /\ tlast.el = 0 /\ tlast.before.seed = 1
       \/ tlast.el = tlast.L /\ tinfo.degree >= 0

BoundaryArgsValid ==
    /\ call.entry \in OnTheFlyEntries
    /\ Abs(call.spin) <= call.L - 1 /\ call.L0 < call.L
    /\ IF call.entry = "_forward"
       THEN FShapeOK(call.x, call.L, call.sampling, call.nside)
       ELSE FlmShapeOK(call.x, call.L)

\* C15: for every spin with |spin| <= L - 1, of either sign and the boundary
\* |spin| = L - 1 included, the validation of the on-the-fly transforms does not
\* raise; every row of degree l < max(L0, |spin|) of what a forward transform
\* returns is zero; and every row of degree l < |spin| of the kernel built by
\* spin_spherical_kernel is zero on every ring.
C15_BoundarySpin ==
    /\ BoundaryArgsValid => ~(pc = "done" /\ trace = <<"validate">>)
    /\ (Returned /\ call.entry \in ForwardEntries) =>
          \A el \in 0..(call.L - 1), j \in 0..(2 * call.L - 2) :
              el < Max(call.L0, Abs(call.spin)) => out.val[el][j] = CZero
    /\ call.entry \in KernelEntries =>
          \A forward \in BOOLEAN :
              LET kernel == SpinSphericalKernel(call.L, call.spin, call.reality,
                                                call.sampling, call.nside, forward)
              IN \A t \in DOMAIN kernel :
                    \A el \in DOMAIN kernel[t] :
                        el < Abs(call.spin) =>
                            \A j \in DOMAIN kernel[t][el] :
                                kernel[t][el][j] = CZero

\* C15 witness: a forward transform with spin = -(L - 1), L = 2, has returned
\* with row 0 zero and a nonzero entry in row 1
C15_Witness ==
    /\ Returned /\ call.entry = "_forward"
    /\ call.L = 2 /\ call.spin = -1 /\ call.L0 = 0
    /\ \E j \in 0..2 : out.val[1][j] # CZero

\* the forward call holds the signal it is about to transform
AfterResample ==
    \/ call.entry = "_forward" /\ pc = "dispatch"
    \/ call.entry = "spherical.forward" /\ pc = "fft"

\* resampling confined to the schemes of the set doubled: it is traced only by
\* forward calls of these schemes, which then hold a signal on the rings of
\* thetas(2L, "mwss"); every other forward call holds the signal it was given,
\* every inverse call returns a signal on the rings of (L, scheme), and a kernel
\* has the rings of thetas(2L, "mwss") exactly when it is a forward kernel of
\* one of these schemes, the rings of (L, scheme) otherwise
ResamplingConfinedTo(doubled) ==
    /\ Has(trace, "resample") =>
          call.entry \in ForwardEntries /\ Lower(call.sampling) \in doubled
    /\ AfterResample =>
          IF Lower(call.sampling) \in doubled
          THEN Has(trace, "resample") /\ NRows(buf) = NTheta(2 * call.L, "mwss", call.nside)
          ELSE buf = call.x
    /\ (Returned /\ call.entry \in InverseEntries) =>
          NRows(out.val) = NTheta(call.L, call.sampling, call.nside)
    /\ call.entry \in KernelEntries =>
          \A forward \in BOOLEAN :
              NRows(SpinSphericalKernel(call.L, call.spin, call.reality,
                                        call.sampling, call.nside, forward))
                  = IF forward /\ Lower(call.sampling) \in doubled
                    THEN NTheta(2 * call.L, "mwss", call.nside)
                    ELSE NTheta(call.L, call.sampling, call.nside)

C17_NsideValidated ==
    (Lower(call.sampling) = "healpix" /\ call.L < 2 * call.nside) =>
        ~Has(trace, "contract") /\ ~Returned

\* an inverse call of the degenerate band-limit: L = 1, spin 0, flm = [[c]], one
\* of the four schemes; under the reality flag c is real
DegenerateInverse ==
    /\ call.entry \in InverseEntries
    /\ call.L = 1 /\ call.spin = 0
    /\ call.sampling \in {"mw", "mwss", "dh", "healpix"}
    /\ FlmShapeOK(call.x, 1)
    /\ call.reality => call.x[0][0][2] = 0

InBandOnly(flm, L, spin, L0) ==
    [el \in DOMAIN flm |-> [j \in DOMAIN flm[el] |->
        IF el >= Max(L0, Abs(spin)) /\ Abs(j - (L - 1)) <= el
        THEN flm[el][j] ELSE CZero]]

\* the signal the inverse call c returns for the coefficients flm
InverseSignal(c, flm) ==
    IF c.entry = "_inverse"
    THEN CASE c.method = "direct" ->
                ComputeInverseDirect(flm, c.L, c.spin, c.sampling, c.nside, c.L0)
           [] c.method = "sov" ->
                ComputeInverseSov(flm, c.L, c.spin, c.sampling, c.nside, c.L0)
           [] c.method = "sov_fft" ->
                ComputeInverseSovFft(flm, c.L, c.spin, c.sampling, c.nside, c.L0)
           [] OTHER ->
                ComputeInverseSovFftVectorized(flm, c.L, c.spin, c.sampling, c.nside, c.L0)
    ELSE InverseTransform(c.method, flm, KernelOf(c, FALSE), c.L, c.sampling,
                          c.reality /\ ~RealityDowngraded(c.reality, c.spin),
                          c.spin, c.nside).val

\* C19: the entries of flm outside max(L0, |spin|) <= l < L, |m| <= l have no
\* effect on the inverse transform: the signal returned for flm is the signal
\* of the array that keeps the entries inside that range and is zero elsewhere,
\* so two arrays that agree inside the range give the same signal; for every
\* method and for the kernel-based inverse.
C19_OutOfBandUnread ==
    (Returned /\ call.entry \in InverseEntries /\ FlmShapeOK(call.x, call.L)) =>
        out.val = InverseSignal(call, InBandOnly(call.x, call.L, call.spin, call.L0))

\* C19 witness: an inverse call with L = 2 and L0 = 1 has returned a nonzero
\* signal for an array whose row of degree 0 and whose entries |m| > l are
\* nonzero
C19_Witness ==
    /\ Returned /\ call.entry = "_inverse" /\ FlmShapeOK(call.x, call.L)
    /\ call.L = 2 /\ call.L0 = 1 /\ call.spin = 0
    /\ call.x[0][1] # CZero /\ call.x[0][0] # CZero
    /\ call.x # InBandOnly(call.x, call.L, call.spin, call.L0)
    /\ \E t \in DOMAIN out.val : \E p \in DOMAIN out.val[t] : out.val[t][p] # CZero

\* generate_precomputes_wigner: entry k of the list is
\* generate_precomputes(L, -n, ...) for the k-th n of range(-N + 1, N)
WignerPrecompSpin(N, k) == -((1 - N) + k)

\* C22: in the Wigner transforms fed with the list of
\* generate_precomputes_wigner, the bundle handed to the spherical transform for
\* the order n is the bundle that was built for the spin -n, for every n the
\* loop processes, with reality = False and with reality = True.
C22_BundleForSpin ==
    (call.entry \in WignerEntries /\ call.precomps = "list") =>
        \A i \in DOMAIN subcalls :
            WignerPrecompSpin(call.N, subcalls[i].precomp) = subcalls[i].spin

\* the last call was fn and returned without raising
TrapaniDone(fn) == tlast.fn = fn /\ tlast.err = "none"

\* the entries (m, m') the plane holds explicitly before or after the last call;
\* every other entry has the value it was allocated with
TouchedEntries ==
    {<<ix[1] - (tlast.L - 1), ix[2] - (tlast.L - 1)>> :
        ix \in DOMAIN dl.data \cup DOMAIN tlast.before.data}

\* the entry (m, m') has the value it had before the last call
EntryKept(m, mm) == DlAt(dl, tlast.L, m, mm) = DlAt(tlast.before, tlast.L, m, mm)

\* C23: compute_eighth for the degree l writes only entries (m, m') with
\* 0 <= m' <= m <= l; every other entry of the plane is as it was passed in.
C23_EighthOnly ==
    TrapaniDone("compute_eighth") =>
        \A w \in TouchedEntries :
            ~(0 <= w[2] /\ w[2] <= w[1] /\ w[1] <= tlast.el) => EntryKept(w[1], w[2])

FillSteps == {"fill_eighth2quarter", "fill_quarter2half", "fill_half2full"}

\* the entries (m, m') the fill step fn is to write for the degree el
FillRegion(fn, el, m, mm) ==
    CASE fn = "fill_eighth2quarter" -> 0 <= m /\ m < mm /\ mm <= el
      [] fn = "fill_quarter2half" -> -el <= m /\ m < 0 /\ 0 <= mm /\ mm <= el
      [] OTHER -> -el <= mm /\ mm < 0 /\ -el <= m /\ m <= el

\* the entry of the region of the earlier steps that (m, m') is filled from
FillSource(fn, m, mm) ==
    CASE fn = "fill_eighth2quarter" -> <<mm, m>>
      [] fn = "fill_quarter2half" -> <<-m, mm>>
      [] OTHER -> <<m, -mm>>

\* C24: each fill step is a pure reindexing: fill_eighth2quarter changes only
\* entries with 0 <= m < m' <= l, fill_quarter2half only entries with
\* -l <= m < 0 <= m' <= l, fill_half2full only entries with -l <= m' < 0; each
\* entry of that region is afterwards +1 or -1 times the entry of the earlier
\* region it mirrors, and every other entry, the earlier region included, keeps
\* its value.
C24_FillReindexes ==
    (TrapaniCalled /\ tlast.fn \in FillSteps /\ tlast.err = "none") =>
        \A w \in TouchedEntries \cup (((-tlast.el)..tlast.el) \X ((-tlast.el)..tlast.el)) :
            IF FillRegion(tlast.fn, tlast.el, w[1], w[2])
            THEN LET v == FillSource(tlast.fn, w[1], w[2])
                     src == DlAt(tlast.before, tlast.L, v[1], v[2])
                 IN /\ ~FillRegion(tlast.fn, tlast.el, v[1], v[2])
                    /\ DlAt(dl, tlast.L, w[1], w[2]) \in {src, RNeg(src)}
            ELSE EntryKept(w[1], w[2])

\* C24 witness: fill_half2full for the degree 1 has returned on a plane whose
\* half m' >= 0 is not zero, with a filled entry that differs from what was
\* there and is the negative of its source
C24_Witness ==
    /\ TrapaniDone("fill_half2full") /\ tlast.el = 1
    /\ DlAt(tlast.before, tlast.L, 0, 1) # 0
    /\ DlAt(dl, tlast.L, 0, -1) = RNeg(DlAt(tlast.before, tlast.L, 0, 1))
    /\ ~EntryKept(0, -1)

\* C30: starting from an all-zero (2L-1) x (2L-1) plane and calling
\* compute_full for the degrees 0, 1, ..., k in order (k < L), after every call
\* each entry (m, m') with |m| > el or |m'| > el is still zero.
C30_ZeroOutsideSquare ==
    (tinfo.degree >= 0 /\ dl.seed = 0) =>
        \A ix \in DOMAIN dl.data :
            LET m == ix[1] - (tinfo.L - 1)
                mm == ix[2] - (tinfo.L - 1)
            IN (Abs(m) > tinfo.degree \/ Abs(mm) > tinfo.degree) => dl.data[ix] = 0

\* C30 witness: a zero plane of L = 3 filled in order up to the degree 1, with
\* nonzero corners of the square of degree 1 and rows of degree 2 to spare
C30_Witness ==
    /\ tinfo.L = 3 /\ tinfo.degree = 1 /\ dl.seed = 0
    /\ tlast.fn = "compute_full" /\ tlast.err = "none"
    /\ DlAt(dl, 3, 1, 1) # 0 /\ DlAt(dl, 3, -1, -1) # 0 /\ DlAt(dl, 3, -1, 1) # 0
    /\ \A m \in (-2)..2 : DlAt(dl, 3, m, 2) = 0 /\ DlAt(dl, 3, 2, m) = 0

\* C25: the two precompute back ends agree: for the same (L, spin, sampling,
\* nside, forward) with |spin| < L, generate_precomputes_jax returns the seven
\* arrays generate_precomputes returns, lrenorm at the degrees l < |spin|
\* included.
C25_BackendsAgree ==
    twin # <<>> =>
        twin = GeneratePrecomputes(pm.L, pm.spin, pm.sampling, pm.nside, pm.forward)

\* C26: for L >= 2 the array compute_all_slices returns has the shape
\* [2L-1, n_rings, L]; every entry (row r, ring t, degree l) with
\* |r - (L-1)| > l is never written and is zero, and every entry with
\* |r - (L-1)| <= l is written by the recursion.
C26_SliceSupport ==
    \A k \in 1..Len(slices) :
        (slices[k].ret.err = "none" /\ pm.L >= 2) =>
            LET v == slices[k].ret.val
            IN /\ DOMAIN v = 0..(2 * pm.L - 2)
               /\ \A r \in DOMAIN v :
                     /\ DOMAIN v[r] = 0..(BundleRings - 1)
                     /\ \A t \in DOMAIN v[r] :
                           /\ DOMAIN v[r][t] = 0..(pm.L - 1)
                           /\ \A el \in DOMAIN v[r][t] :
                                 IF Abs(r - (pm.L - 1)) > el
                                 THEN <<r, t, el>> \notin slices[k].written /\ v[r][t][el] = 0
                                 ELSE <<r, t, el>> \in slices[k].written

\* C26 witness: compute_all_slices has returned for L = 3 an array with a
\* finite nonzero entry at row 0, degree 2 and a zero at row 0, degree 1
C26_Witness ==
    \E k \in 1..Len(slices) :
        /\ slices[k].backend = "numpy" /\ slices[k].ret.err = "none" /\ pm.L = 3
        /\ IsFinite(slices[k].ret.val[0][0][2]) /\ slices[k].ret.val[0][0][2] # 0
        /\ slices[k].ret.val[0][0][1] = 0
        /\ <<0, 0, 2>> \in slices[k].written

\* C27: for every band-limit L >= 1, L = 1 and L = 2 included, every row
\* index compute_all_slices uses in its output (sind, sind + sgn,
\* sind + sgn * m for 2 <= m < L, in both half-passes) addresses one of the
\* 2L-1 rows, so that a call with the bundle of its parameters completes
\* without an index error.
C27_RowsInRange ==
    \A k \in 1..Len(slices) :
        slices[k].given =>
            /\ \A i \in 0..1, m \in {0, 1} \cup (2..(pm.L - 1)) :
                  PyIndex(Sind(i) + Sgn(i) * m, 2 * pm.L - 1) # -1
            /\ slices[k].ret.err # "IndexError"

\* C28: compute_all_slices(beta, L, spin) without a bundle builds the bundle
\* for L and the spin itself and returns what it returns when the bundle of
\* generate_precomputes for those parameters is passed; the same for
\* compute_all_slices_jax.
C28_DefaultBundle ==
    \A k \in 1..Len(slices) :
        ~slices[k].given =>
            slices[k].ret =
                ComputeAllSlices(slices[k].backend, BundleRings, pm.L, pm.spin,
                                 GeneratePrecomputes(pm.L, pm.spin, pm.sampling,
                                                     pm.nside, pm.forward)).ret

\* the scheme string in force when the Fourier buffer is used: _forward and
\* the kernel-based forward transform replace an 'mw' or 'mwss' string by
\* "mwss", every other call keeps the caller's string
SchemeInForce ==
    IF call.entry \in ForwardEntries THEN ForwardSampling(call.sampling) ELSE call.sampling

====
